---- MODULE Spec2Model ----
(***************************************************************************)
(* Tiled multi-camera render synchronisation: the OVRTX renderer           *)
(* (source/isaaclab/isaaclab/renderer/ovrtx_renderer.py) as a state        *)
(* machine.  render() is split at its external calls (map, write, unmap,   *)
(* step, kernel launch) so that the order of those calls is observable;    *)
(* the other handlers are single actions.  The caller is single-threaded:  *)
(* no handler starts while render() is in flight.                          *)
(***************************************************************************)
EXTENDS Integers, Sequences, FiniteSets, TLC

(* ------------------------------ bounds --------------------------------- *)
NumEnvs == 2          \* cfg num_envs
TileWidth == 2        \* cfg width
TileHeight == 1       \* cfg height
MaxFrames == 2        \* render() calls that pass the scene guard
MaxInits == 1         \* Renderer objects ever constructed
MaxHandles == 2       \* USD handles ever handed out
NumIntrinsics == 2    \* different intrinsic matrices a caller passes
MaxKernelEnvs == 9    \* kernel bench: environments, 1 .. MaxKernelEnvs
NumPalettes == 2      \* kernel bench: synthetic image sets
MaxBodies == 4        \* function bench: bodies of a Newton model
MaxCoordinate == 1    \* function bench: camera positions in -MaxCoordinate .. MaxCoordinate
MaxGridEnvs == 30     \* function bench: environments, 1 .. MaxGridEnvs

Envs == 0 .. NumEnvs - 1

(* --------------------------- tile addressing --------------------------- *)
\* Variant of CeilSqrt: int(math.sqrt(n)) + 1, one too many for a square n
CeilSqrtFloorPlusOne(n) == (CHOOSE k \in 0 .. n : k * k <= n /\ (k + 1) * (k + 1) > n) + 1

\* math.ceil(math.sqrt(n)) for n >= 1
CeilSqrt(n) == CHOOSE k \in 1 .. n : k * k >= n /\ (k - 1) * (k - 1) < n

num_tiles_per_side == CeilSqrt(NumEnvs)
tiled_width == num_tiles_per_side * TileWidth
tiled_height == num_tiles_per_side * TileHeight

ZeroPixel == <<0, 0, 0, 0>>
ZeroTile == [y \in 0 .. TileHeight - 1 |-> [x \in 0 .. TileWidth - 1 |-> ZeroPixel]]

\* wp.zeros((num_envs, height, width, 4), uint8)
ZerosRgba == [e \in Envs |-> ZeroTile]
\* wp.zeros((num_envs, height, width, 1), float32)
ZerosDepth == [e \in Envs |-> [y \in 0 .. TileHeight - 1 |-> [x \in 0 .. TileWidth - 1 |-> 0]]]

\* The LdrColor image the external renderer hands back for frame g: one RGBA
\* pixel per atlas position, distinct per position and per frame.
RenderedAtlas(g) ==
  [y \in 0 .. tiled_height - 1 |-> [x \in 0 .. tiled_width - 1 |-> <<g, x, y, 255>>]]

\* The size the injected render product declares: (tiled_width, tiled_height)
ExactAtlas == [w |-> tiled_width, h |-> tiled_height]
\* The sizes the external renderer may give the LdrColor image: the declared
\* one, or a rounded one that is smaller or larger
AtlasSizes ==
  {ExactAtlas,
   [w |-> tiled_width - 1, h |-> tiled_height],
   [w |-> tiled_width + 1, h |-> tiled_height + 1]}

\* The LdrColor image of frame g when the renderer produces it with the given size
RenderedImage(g, size) ==
  [y \in 0 .. size.h - 1 |-> [x \in 0 .. size.w - 1 |-> <<g, x, y, 255>>]]

\* What a read past the end of an array can give
Garbage == {<<0, 0, 0, 0>>, <<255, 255, 255, 255>>}

\* The memory the extraction kernel addresses through tiled_buffer: the kernel
\* checks no bound, so an index inside the array reads its content and an index
\* outside reads oob
AddressedMemory(tiled_buffer, oob) ==
  [y \in 0 .. tiled_height - 1 |->
     [x \in 0 .. tiled_width - 1 |->
        IF y \in DOMAIN tiled_buffer /\ x \in DOMAIN tiled_buffer[y]
        THEN tiled_buffer[y][x]
        ELSE oob]]

\* Variant of ExtractTileKernel: tile_x and tile_y taken for each other
ExtractTileKernelTransposed(tiled_buffer, tile_x, tile_y, tile_width, tile_height) ==
  [y \in 0 .. TileHeight - 1 |->
     [x \in 0 .. TileWidth - 1 |->
        LET src_x == tile_y * tile_width + x
            src_y == tile_x * tile_height + y
        IN  tiled_buffer[src_y][src_x]]]

\* _extract_tile_from_tiled_buffer_kernel over dim = (height, width)
ExtractTileKernel(tiled_buffer, tile_x, tile_y, tile_width, tile_height) ==
  [y \in 0 .. TileHeight - 1 |->
     [x \in 0 .. TileWidth - 1 |->
        LET src_x == tile_x * tile_width + x
            src_y == tile_y * tile_height + y
        IN  tiled_buffer[src_y][src_x]]]

\* The tile render() extracts for env_idx (tile_x = env_idx % tps, tile_y = env_idx // tps)
ExtractEnvTile(tiled_buffer, e) ==
  ExtractTileKernel(tiled_buffer, e % num_tiles_per_side, e \div num_tiles_per_side,
                    TileWidth, TileHeight)

(* -------------------------- transform builder -------------------------- *)
\* Unit quaternions (x, y, z, w) with integer components
AxisQuats == << <<0, 0, 0, 1>>, <<0, 0, 1, 0>>, <<1, 0, 0, 0>>, <<0, 1, 0, 0>> >>
QuatOf(k) == AxisQuats[((k - 1) % 4) + 1]

\* Variant of CreateCameraTransform: the quaternion read in (w, x, y, z) order
CreateCameraTransformWxyz(pos, quat) ==
  LET qw == quat[1]
      qx == quat[2]
      qy == quat[3]
      qz == quat[4]
      r00 == 1 - 2 * (qy * qy + qz * qz)
      r01 == 2 * (qx * qy - qw * qz)
      r02 == 2 * (qx * qz + qw * qy)
      r10 == 2 * (qx * qy + qw * qz)
      r11 == 1 - 2 * (qx * qx + qz * qz)
      r12 == 2 * (qy * qz - qw * qx)
      r20 == 2 * (qx * qz - qw * qy)
      r21 == 2 * (qy * qz + qw * qx)
      r22 == 1 - 2 * (qx * qx + qy * qy)
  IN  << <<r00, r10, r20, 0>>,
         <<r01, r11, r21, 0>>,
         <<r02, r12, r22, 0>>,
         <<pos[1], pos[2], pos[3], 1>> >>

\* Variant of CreateCameraTransform: the squares of r11 and r22 taken for each other
CreateCameraTransformDiagonalSlip(pos, quat) ==
  LET qx == quat[1]
      qy == quat[2]
      qz == quat[3]
      qw == quat[4]
      r00 == 1 - 2 * (qy * qy + qz * qz)
      r01 == 2 * (qx * qy - qw * qz)
      r02 == 2 * (qx * qz + qw * qy)
      r10 == 2 * (qx * qy + qw * qz)
      r11 == 1 - 2 * (qx * qx + qy * qy)
      r12 == 2 * (qy * qz - qw * qx)
      r20 == 2 * (qx * qz - qw * qy)
      r21 == 2 * (qy * qz + qw * qx)
      r22 == 1 - 2 * (qx * qx + qz * qz)
  IN  << <<r00, r10, r20, 0>>,
         <<r01, r11, r21, 0>>,
         <<r02, r12, r22, 0>>,
         <<pos[1], pos[2], pos[3], 1>> >>

\* Numbers with a fractional part are held as integer numerators over a
\* denominator den: a product of two of them is a numerator over den * den
\* and is brought back by \div den, exactly for the inputs drawn (components
\* 0, +-1/2, +-1). With den = 1 the numbers are the integers themselves.

\* Variant of CreateCameraTransformOver: the rotation written row by row, not
\* transposed
CreateCameraTransformOverUntransposed(pos, quat, den) ==
  LET qx == quat[1]
      qy == quat[2]
      qz == quat[3]
      qw == quat[4]
      r00 == (den * den - 2 * (qy * qy + qz * qz)) \div den
      r01 == (2 * (qx * qy - qw * qz)) \div den
      r02 == (2 * (qx * qz + qw * qy)) \div den
      r10 == (2 * (qx * qy + qw * qz)) \div den
      r11 == (den * den - 2 * (qx * qx + qz * qz)) \div den
      r12 == (2 * (qy * qz - qw * qx)) \div den
      r20 == (2 * (qx * qz - qw * qy)) \div den
      r21 == (2 * (qy * qz + qw * qx)) \div den
      r22 == (den * den - 2 * (qx * qx + qy * qy)) \div den
  IN  << <<r00, r01, r02, 0>>,
         <<r10, r11, r12, 0>>,
         <<r20, r21, r22, 0>>,
         <<pos[1], pos[2], pos[3], den>> >>

\* _create_camera_transforms_kernel, one thread: the 4x4 matrix of a position
\* and a quaternion (x, y, z, w) given over den; rotation transposed,
\* translation in the last row
CreateCameraTransformOver(pos, quat, den) ==
  LET qx == quat[1]
      qy == quat[2]
      qz == quat[3]
      qw == quat[4]
      r00 == (den * den - 2 * (qy * qy + qz * qz)) \div den
      r01 == (2 * (qx * qy - qw * qz)) \div den
      r02 == (2 * (qx * qz + qw * qy)) \div den
      r10 == (2 * (qx * qy + qw * qz)) \div den
      r11 == (den * den - 2 * (qx * qx + qz * qz)) \div den
      r12 == (2 * (qy * qz - qw * qx)) \div den
      r20 == (2 * (qx * qz - qw * qy)) \div den
      r21 == (2 * (qy * qz + qw * qx)) \div den
      r22 == (den * den - 2 * (qx * qx + qy * qy)) \div den
  IN  << <<r00, r10, r20, 0>>,
         <<r01, r11, r21, 0>>,
         <<r02, r12, r22, 0>>,
         <<pos[1], pos[2], pos[3], den>> >>

\* _create_camera_transforms_kernel on integer components
CreateCameraTransform(pos, quat) == CreateCameraTransformOver(pos, quat, 1)

\* Variant of TransformToMatrixOver: the rotation of the conjugate quaternion
TransformToMatrixOverConjugate(pos, quat, den) ==
  LET qx == quat[1]
      qy == quat[2]
      qz == quat[3]
      qw == quat[4]
  IN  << <<(den * den - 2 * (qy * qy + qz * qz)) \div den,
           (2 * (qx * qy + qw * qz)) \div den,
           (2 * (qx * qz - qw * qy)) \div den, pos[1]>>,
         <<(2 * (qx * qy - qw * qz)) \div den,
           (den * den - 2 * (qx * qx + qz * qz)) \div den,
           (2 * (qy * qz + qw * qx)) \div den, pos[2]>>,
         <<(2 * (qx * qz + qw * qy)) \div den,
           (2 * (qy * qz - qw * qx)) \div den,
           (den * den - 2 * (qx * qx + qy * qy)) \div den, pos[3]>>,
         <<0, 0, 0, den>> >>

\* wp.math.transform_to_matrix on a transform given over den: rotation rows,
\* translation in the last column
TransformToMatrixOver(pos, quat, den) ==
  LET qx == quat[1]
      qy == quat[2]
      qz == quat[3]
      qw == quat[4]
  IN  << <<(den * den - 2 * (qy * qy + qz * qz)) \div den,
           (2 * (qx * qy - qw * qz)) \div den,
           (2 * (qx * qz + qw * qy)) \div den, pos[1]>>,
         <<(2 * (qx * qy + qw * qz)) \div den,
           (den * den - 2 * (qx * qx + qz * qz)) \div den,
           (2 * (qy * qz - qw * qx)) \div den, pos[2]>>,
         <<(2 * (qx * qz - qw * qy)) \div den,
           (2 * (qy * qz + qw * qx)) \div den,
           (den * den - 2 * (qx * qx + qy * qy)) \div den, pos[3]>>,
         <<0, 0, 0, den>> >>

\* wp.math.transform_to_matrix on integer components
TransformToMatrix(pos, quat) == TransformToMatrixOver(pos, quat, 1)

Transpose44(m) == [r \in 1 .. 4 |-> [c \in 1 .. 4 |-> m[c][r]]]

\* Variant of SyncNewtonTransforms: the thread index is used as the body index,
\* the index table is not looked up
SyncNewtonTransformsByRow(newton_body_indices, newton_body_q) ==
  [i \in 1 .. Len(newton_body_indices) |->
     LET transform == newton_body_q[i - 1]
     IN  Transpose44(TransformToMatrix(transform.p, transform.q))]

\* _sync_newton_transforms_kernel over dim = len(newton_body_indices), the
\* transforms given over den; body indices are 0-based as in the source
SyncNewtonTransformsOver(newton_body_indices, newton_body_q, den) ==
  [i \in 1 .. Len(newton_body_indices) |->
     LET transform == newton_body_q[newton_body_indices[i]]
     IN  Transpose44(TransformToMatrixOver(transform.p, transform.q, den))]

\* _sync_newton_transforms_kernel on integer components
SyncNewtonTransforms(newton_body_indices, newton_body_q) ==
  SyncNewtonTransformsOver(newton_body_indices, newton_body_q, 1)

(* ------------------------------ inputs --------------------------------- *)
\* Data inputs are numbered by the frame they belong to: the caller's poses,
\* the physics state and the rendered image of frame f all differ from those
\* of every other frame, so stale data is told apart from fresh data.  What
\* is drawn nondeterministically is the outcome of every external call.

\* camera_positions / camera_orientations passed to the render() call of frame k
CameraPoses(k) == [e \in Envs |-> [p |-> <<k, e, 1>>, q |-> QuatOf(k + e)]]

\* newton_model.body_key, each path as the sequence of its pieces
BodyKeys ==
  << <<"/World/envs/", "env_0/", "Robot", "/link0">>,
     <<"/World/envs/", "env_0/", "Camera">>,
     <<"/World/envs/", "env_0/", "GroundPlane">>,
     <<"/World/envs/", "env_0/", "object">> >>
StaticBodyKeys ==
  << <<"/World/", "GroundPlane">>, <<"/World/envs/", "env_0/", "Camera">> >>

\* The Newton models NewtonManager.get_model() can return
NewtonModels == [dynamic |-> [body_key |-> BodyKeys], static |-> [body_key |-> StaticBodyKeys]]

\* state.body_q of the physics state at frame s: one transform per body, index 0-based
BodyQ(s) == [b \in 0 .. Len(BodyKeys) - 1 |-> [p |-> <<s, b, 0>>, q |-> QuatOf(s + b)]]

\* "marker in path" on paths cut into pieces at the markers
Contains(path, marker) == \E i \in 1 .. Len(path) : path[i] = marker

\* Variant of IsDynamicObject: the ground plane is not excluded
IsDynamicObjectWithGround(path) ==
  /\ Contains(path, "/World/envs/")
  /\ ~Contains(path, "Camera")

\* _setup_object_bindings: the filter over enumerate(all_body_paths)
IsDynamicObject(path) ==
  /\ Contains(path, "/World/envs/")
  /\ ~Contains(path, "Camera")
  /\ ~Contains(path, "GroundPlane")

RECURSIVE FilterIndices(_, _)
FilterIndices(paths, n) ==
  IF n = 0 THEN <<>>
  ELSE IF IsDynamicObject(paths[n])
       THEN Append(FilterIndices(paths, n - 1), n - 1)
       ELSE FilterIndices(paths, n - 1)

\* newton_indices built by _setup_object_bindings
NewtonIndices(all_body_paths) == FilterIndices(all_body_paths, Len(all_body_paths))

(* ------------------------------- state --------------------------------- *)
VARIABLES
  renderer,                \* _renderer: id of the Renderer object, 0 = None
  usd_handles,             \* _usd_handles
  camera_binding,          \* _camera_binding: id of the renderer that made it, 0 = None
  object_binding,          \* _object_binding: likewise
  object_newton_indices,   \* _object_newton_indices, <<>> = None
  render_product_paths,    \* _render_product_paths
  initialized_scene,       \* _initialized_scene
  frame_counter,           \* _frame_counter
  output_rgba,             \* _output_data_buffers["rgba"], <<>> before allocation
  output_depth,            \* _output_data_buffers["depth"]
  pc,                      \* position inside render(), "idle" between calls
  camera_transforms,       \* render(): the array the transform kernel filled
  exc,                     \* an exception is propagating out of a with-block
  env_idx,                 \* render(): loop variable of the tile extraction
  newton_state,            \* _update_object_transforms(): the physics state read, 0 = None
  tiled_data,              \* renderer side: the LdrColor image last mapped
  camSlot,                 \* renderer side: content of the camera BindingSlot
  objSlot,                 \* renderer side: content of the object BindingSlot
  openMaps,                \* renderer side: open mappings per mapped resource
  nextRid,                 \* renderer side: Renderer objects constructed so far
  nextHandle,              \* renderer side: USD handles handed out so far
  log,                     \* external calls made by the latest API call, in order
  lastOp,                  \* the latest API call
  lastResult,              \* how it ended: "ok", "RuntimeError", "Exception", "running"
  atCall,                  \* buffers and frame counter when the latest API call, a render(), was entered
  prev,                    \* what happened in the API call right before, if a render()
  backend,                 \* the renderer class constructed: "ovrtx" (OVRTXRenderer) or "newton" (NewtonWarpRenderer)
  output_data_buffers,     \* _output_data_buffers: data type -> the array object bound to it
  model,                   \* NewtonWarpRenderer._model, 0 = None
  tiled_camera_sensor,     \* NewtonWarpRenderer._tiled_camera_sensor: id of the sensor, 0 = None
  camera_rays,             \* NewtonWarpRenderer._camera_rays: <<>> = None or not set
  raw_output_rgb_buffer,   \* NewtonWarpRenderer._raw_output_rgb_buffer: packed uint32 per env and pixel
  raw_output_depth_buffer, \* NewtonWarpRenderer._raw_output_depth_buffer
  k_num_envs,              \* kernel bench: the number of environments the kernels are run for
  k_images,                \* kernel bench: the per-environment images given to pack
  k_atlas,                 \* kernel bench: the tiled buffer pack produced
  k_output,                \* kernel bench: the per-environment buffers unpack produced
  k_addr,                  \* kernel bench: the latest addressing computed, forward and back
  k_op,                    \* kernel bench: the latest kernel run
  atlasSize,               \* renderer side: width and height of the LdrColor image it produces
  f_op,                    \* function bench: the function applied, "none" before
  f_args,                  \* function bench: the arguments it was applied to
  f_value,                 \* function bench: what it returned
  cuda                     \* device stream: the host's position in render() and the stream of cuda:0

vars == <<renderer, usd_handles, camera_binding, object_binding, object_newton_indices,
          render_product_paths, initialized_scene, frame_counter, output_rgba,
          output_depth, pc, camera_transforms, exc, env_idx, newton_state, tiled_data,
          camSlot, objSlot, openMaps, nextRid, nextHandle, log, lastOp, lastResult,
          atCall, prev, backend, output_data_buffers, model, tiled_camera_sensor,
          camera_rays, raw_output_rgb_buffer, raw_output_depth_buffer, k_num_envs,
          k_images, k_atlas, k_output, k_addr, k_op, atlasSize, f_op, f_args, f_value,
          cuda>>

progVars == <<renderer, usd_handles, camera_binding, object_binding, object_newton_indices,
              render_product_paths, initialized_scene, frame_counter, output_rgba,
              output_depth>>
localVars == <<camera_transforms, exc, env_idx, newton_state>>
extVars == <<tiled_data, camSlot, objSlot, openMaps, nextRid, nextHandle>>
newtonVars == <<model, tiled_camera_sensor, camera_rays, raw_output_rgb_buffer,
                raw_output_depth_buffer>>
kernelVars == <<k_num_envs, k_images, k_atlas, k_output, k_addr, k_op>>
functionVars == <<f_op, f_args, f_value>>
streamVars == <<cuda>>

NoPrev == [step_raised |-> FALSE, no_state |-> FALSE]
\* No render() is followed on the device stream
NoStream == [host |-> "none", queue |-> <<>>, completed |-> {}, early |-> {},
             camera_binding |-> FALSE, object_binding |-> FALSE, frame |-> 0, env_idx |-> 0]
\* An array object: the memory it addresses and how many channels it shows
NoArray == [base |-> <<"none", 0>>, channels |-> 0]
\* _output_data_buffers before _initialize_output(): no data type is bound
NoBuffers == [rgba |-> NoArray, rgb |-> NoArray, depth |-> NoArray]
\* a[:, :, :, :3]: the same memory, the first 3 channels
FirstThreeChannels(a) == [a EXCEPT !.channels = 3]
\* _initialize_output(): wp.zeros for rgba and depth, rgb a view of rgba; n
\* numbers the allocation
AllocatedBuffers(n) ==
  LET rgba == [base |-> <<"zeros_rgba", n>>, channels |-> 4]
  IN  [rgba |-> rgba,
       rgb |-> FirstThreeChannels(rgba),
       depth |-> [base |-> <<"zeros_depth", n>>, channels |-> 1]]

NoCall == [rgba |-> <<>>, depth |-> <<>>, frame |-> 0, buffers |-> NoBuffers]
RenderProductPath == "/Render/RenderProduct"

\* class attributes of OVRTXRenderer and __init__
Init ==
  /\ renderer = 0
  /\ usd_handles = <<>>
  /\ camera_binding = 0
  /\ object_binding = 0
  /\ object_newton_indices = <<>>
  /\ render_product_paths = <<>>
  /\ initialized_scene = FALSE
  /\ frame_counter = 0
  /\ output_rgba = <<>>
  /\ output_depth = <<>>
  /\ pc = "idle"
  /\ camera_transforms = <<>>
  /\ exc = FALSE
  /\ env_idx = 0
  /\ newton_state = 0
  /\ tiled_data = <<>>
  /\ camSlot = <<>>
  /\ objSlot = <<>>
  /\ openMaps = [cam |-> 0, obj |-> 0, frame |-> 0]
  /\ nextRid = 0
  /\ nextHandle = 0
  /\ log = <<>>
  /\ lastOp = "init"
  /\ lastResult = "ok"
  /\ atCall = NoCall
  /\ prev = NoPrev
  /\ backend = "ovrtx"
  /\ output_data_buffers = NoBuffers
  /\ model = 0
  /\ tiled_camera_sensor = 0
  /\ camera_rays = <<>>
  /\ raw_output_rgb_buffer = <<>>
  /\ raw_output_depth_buffer = <<>>
  /\ k_num_envs = NumEnvs
  /\ k_images = <<>>
  /\ k_atlas = <<>>
  /\ k_output = <<>>
  /\ k_addr = <<>>
  /\ k_op = "none"
  /\ atlasSize = ExactAtlas
  /\ f_op = "none"
  /\ f_args = <<>>
  /\ f_value = <<>>
  /\ cuda = NoStream

Has(ev) == \E i \in 1 .. Len(log) : log[i] = ev
\* position of the first occurrence of ev in the log, 0 when absent
Pos(ev) ==
  IF Has(ev)
  THEN CHOOSE i \in 1 .. Len(log) : log[i] = ev /\ \A j \in 1 .. i - 1 : log[j] # ev
  ELSE 0

\* render() is left: its locals go out of scope
LeaveRender(result) ==
  /\ pc' = "idle"
  /\ lastResult' = result
  /\ camera_transforms' = <<>>
  /\ exc' = FALSE
  /\ env_idx' = 0
  /\ newton_state' = 0

(* ------------------------------ render() ------------------------------- *)
\* the print in the except handler of _update_object_transforms
ObjectFailureReport == IF frame_counter = 1 THEN <<"report_obj">> ELSE <<>>

\* Variant of SceneGuardFails: the guard is missing
SceneGuardFailsNever == FALSE

\* Variant of SceneGuardFails: the guard also refuses every render() after the
\* first counted one
SceneGuardFailsOnLaterFrames == ~initialized_scene \/ frame_counter > 0

\* render(): "if not self._initialized_scene: raise RuntimeError"
SceneGuardFails == ~initialized_scene

\* render(): guard, frame counter, transform kernel launch
Render ==
  /\ pc = "idle"
  /\ backend = "ovrtx"
  /\ UNCHANGED <<backend, atlasSize, output_data_buffers, newtonVars, kernelVars, streamVars, functionVars>>
  /\ SceneGuardFails \/ frame_counter < MaxFrames
  /\ lastOp' = "render"
  /\ log' = <<>>
  /\ IF SceneGuardFails
     THEN /\ lastResult' = "RuntimeError"
          /\ atCall' = [rgba |-> output_rgba, depth |-> output_depth, frame |-> frame_counter,
                        buffers |-> output_data_buffers]
          /\ prev' = NoPrev
          /\ UNCHANGED <<progVars, localVars, extVars, pc>>
     ELSE /\ lastResult' = "running"
          /\ frame_counter' = frame_counter + 1
          /\ camera_transforms' =
               [e \in Envs |->
                  LET pose == CameraPoses(frame_counter + 1)[e]
                  IN  CreateCameraTransform(pose.p, pose.q)]
          /\ pc' = "camera"
          /\ atCall' = [rgba |-> output_rgba, depth |-> output_depth, frame |-> frame_counter,
                        buffers |-> output_data_buffers]
          /\ prev' = IF lastOp = "render"
                     THEN [step_raised |-> Has("step_raise"), no_state |-> Has("obj_no_state")]
                     ELSE NoPrev
          /\ UNCHANGED <<renderer, usd_handles, camera_binding, object_binding,
                         object_newton_indices, render_product_paths, initialized_scene,
                         output_rgba, output_depth, exc, env_idx, newton_state, extVars>>

\* Variant of CameraBindingPresent: the None check is missing
CameraBindingPresentAlways == TRUE

\* render(): "if self._camera_binding is not None"
CameraBindingPresent == camera_binding # 0

\* render(): "with self._camera_binding.map(...) as attr_mapping", outside any try
CameraMap ==
  /\ pc = "camera"
  /\ UNCHANGED <<backend, atlasSize, output_data_buffers, newtonVars, kernelVars, streamVars, functionVars>>
  /\ IF CameraBindingPresent
     THEN \E outcome \in {"ok", "raise"} :
            IF outcome = "ok"
            THEN /\ openMaps' = [openMaps EXCEPT !.cam = @ + 1]
                 /\ log' = Append(log, "cam_map")
                 /\ pc' = "camera_write"
                 /\ UNCHANGED <<lastResult, localVars>>
            ELSE /\ log' = Append(log, "cam_map_raise")
                 /\ LeaveRender("Exception")
                 /\ UNCHANGED openMaps
     ELSE /\ pc' = "object"
          /\ UNCHANGED <<log, openMaps, lastResult, localVars>>
  /\ UNCHANGED <<progVars, tiled_data, camSlot, objSlot, nextRid, nextHandle, lastOp,
                 atCall, prev>>

\* Variant of CameraWrite: wp.copy with source and destination swapped, so the
\* slot keeps what it held
CameraWriteStale ==
  /\ pc = "camera_write"
  /\ UNCHANGED <<backend, atlasSize, output_data_buffers, newtonVars, kernelVars, streamVars, functionVars>>
  /\ \E outcome \in {"ok", "debug_raise", "copy_raise"} :
       /\ outcome = "debug_raise" => frame_counter = 1
       /\ LET debug == IF frame_counter = 1 THEN <<"cam_debug_read">> ELSE <<>>
          IN  IF outcome = "ok"
              THEN /\ log' = log \o debug \o <<"cam_write">>
                   /\ exc' = FALSE
              ELSE /\ log' = log \o debug \o <<"cam_" \o outcome>>
                   /\ exc' = TRUE
  /\ pc' = "camera_exit"
  /\ UNCHANGED <<progVars, camera_transforms, env_idx, newton_state, tiled_data, camSlot,
                 objSlot, openMaps, nextRid, nextHandle, lastOp, lastResult, atCall, prev>>

\* render(): the body of the camera with-block: debug print on frame 1, wp.copy
CameraWrite ==
  /\ pc = "camera_write"
  /\ UNCHANGED <<backend, atlasSize, output_data_buffers, newtonVars, kernelVars, streamVars, functionVars>>
  /\ \E outcome \in {"ok", "debug_raise", "copy_raise"} :
       /\ outcome = "debug_raise" => frame_counter = 1
       /\ LET debug == IF frame_counter = 1 THEN <<"cam_debug_read">> ELSE <<>>
          IN  IF outcome = "ok"
              THEN /\ camSlot' = camera_transforms
                   /\ log' = log \o debug \o <<"cam_write">>
                   /\ exc' = FALSE
              ELSE /\ log' = log \o debug \o <<"cam_" \o outcome>>
                   /\ exc' = TRUE
                   /\ UNCHANGED camSlot
  /\ pc' = "camera_exit"
  /\ UNCHANGED <<progVars, camera_transforms, env_idx, newton_state, tiled_data, objSlot,
                 openMaps, nextRid, nextHandle, lastOp, lastResult, atCall, prev>>

\* Variant of CameraExit: map()/unmap() written out without try/finally, so an
\* exception in the block skips the unmap
CameraExitNoFinally ==
  /\ pc = "camera_exit"
  /\ UNCHANGED <<backend, atlasSize, output_data_buffers, newtonVars, kernelVars, streamVars, functionVars>>
  /\ IF exc
     THEN /\ LeaveRender("Exception")
          /\ UNCHANGED <<openMaps, log>>
     ELSE /\ openMaps' = [openMaps EXCEPT !.cam = @ - 1]
          /\ log' = Append(log, "cam_unmap")
          /\ pc' = "object"
          /\ UNCHANGED <<lastResult, localVars>>
  /\ UNCHANGED <<progVars, tiled_data, camSlot, objSlot, nextRid, nextHandle, lastOp,
                 atCall, prev>>

\* render(): leaving the camera with-block unmaps, on the normal and the raising path
CameraExit ==
  /\ pc = "camera_exit"
  /\ UNCHANGED <<backend, atlasSize, output_data_buffers, newtonVars, kernelVars, streamVars, functionVars>>
  /\ openMaps' = [openMaps EXCEPT !.cam = @ - 1]
  /\ log' = Append(log, "cam_unmap")
  /\ IF exc
     THEN LeaveRender("Exception")
     ELSE pc' = "object" /\ UNCHANGED <<lastResult, localVars>>
  /\ UNCHANGED <<progVars, tiled_data, camSlot, objSlot, nextRid, nextHandle, lastOp,
                 atCall, prev>>

\* _update_object_transforms(): "if self._object_binding is None or
\* self._object_newton_indices is None: return"
ObjectBindingMissing == object_binding = 0 \/ object_newton_indices = <<>>

\* Variant of ObjectSync: a missing physics state disables the sync for good
\* (here: also in the frame right after the one that found no state)
ObjectSyncSticky ==
  /\ pc = "object"
  /\ UNCHANGED <<backend, atlasSize, output_data_buffers, newtonVars, kernelVars, streamVars, functionVars>>
  /\ IF ObjectBindingMissing \/ prev.no_state
     THEN /\ log' = Append(log, "obj_sync")
          /\ pc' = "step"
          /\ UNCHANGED <<openMaps, newton_state>>
     ELSE \/ \E outcome \in {"import_raise", "map_raise"} :
               /\ log' = log \o <<"obj_sync", "obj_" \o outcome>> \o ObjectFailureReport
               /\ pc' = "step"
               /\ UNCHANGED <<openMaps, newton_state>>
          \/ /\ log' = log \o <<"obj_sync", "obj_no_state">>
             /\ pc' = "step"
             /\ UNCHANGED <<openMaps, newton_state>>
          \/ /\ newton_state' = frame_counter
             /\ openMaps' = [openMaps EXCEPT !.obj = @ + 1]
             /\ log' = log \o <<"obj_sync", "obj_map">>
             /\ pc' = "object_write"
  /\ UNCHANGED <<progVars, camera_transforms, exc, env_idx, tiled_data, camSlot, objSlot,
                 nextRid, nextHandle, lastOp, lastResult, atCall, prev>>

\* _update_object_transforms() up to the map of the object slot; the import,
\* get_state_0() and map() are inside the try
ObjectSync ==
  /\ pc = "object"
  /\ UNCHANGED <<backend, atlasSize, output_data_buffers, newtonVars, kernelVars, streamVars, functionVars>>
  /\ IF ObjectBindingMissing
     THEN /\ log' = Append(log, "obj_sync")
          /\ pc' = "step"
          /\ UNCHANGED <<openMaps, newton_state>>
     ELSE \/ \E outcome \in {"import_raise", "map_raise"} :
               /\ log' = log \o <<"obj_sync", "obj_" \o outcome>> \o ObjectFailureReport
               /\ pc' = "step"
               /\ UNCHANGED <<openMaps, newton_state>>
          \/ /\ log' = log \o <<"obj_sync", "obj_no_state">>
             /\ pc' = "step"
             /\ UNCHANGED <<openMaps, newton_state>>
          \/ /\ newton_state' = frame_counter
             /\ openMaps' = [openMaps EXCEPT !.obj = @ + 1]
             /\ log' = log \o <<"obj_sync", "obj_map">>
             /\ pc' = "object_write"
  /\ UNCHANGED <<progVars, camera_transforms, exc, env_idx, tiled_data, camSlot, objSlot,
                 nextRid, nextHandle, lastOp, lastResult, atCall, prev>>

\* _update_object_transforms(): the sync kernel launch inside the with-block
ObjectWrite ==
  /\ pc = "object_write"
  /\ UNCHANGED <<backend, atlasSize, output_data_buffers, newtonVars, kernelVars, streamVars, functionVars>>
  /\ \E outcome \in {"ok", "raise"} :
       IF outcome = "ok"
       THEN /\ objSlot' = SyncNewtonTransforms(object_newton_indices, BodyQ(newton_state))
            /\ log' = Append(log, "obj_write")
            /\ exc' = FALSE
       ELSE /\ log' = Append(log, "obj_write_raise")
            /\ exc' = TRUE
            /\ UNCHANGED objSlot
  /\ pc' = "object_exit"
  /\ UNCHANGED <<progVars, camera_transforms, env_idx, newton_state, tiled_data, camSlot,
                 openMaps, nextRid, nextHandle, lastOp, lastResult, atCall, prev>>

\* Variant of ObjectExit: the mapping is never released
ObjectExitLeak ==
  /\ pc = "object_exit"
  /\ UNCHANGED <<backend, atlasSize, output_data_buffers, newtonVars, kernelVars, streamVars, functionVars>>
  /\ log' = log \o (IF exc THEN ObjectFailureReport ELSE <<>>)
  /\ exc' = FALSE
  /\ pc' = "step"
  /\ UNCHANGED <<progVars, camera_transforms, env_idx, newton_state, tiled_data, camSlot,
                 objSlot, openMaps, nextRid, nextHandle, lastOp, lastResult, atCall, prev>>

\* Variant of ObjectExit: no except clause, what the block raised leaves render()
ObjectExitPropagate ==
  /\ pc = "object_exit"
  /\ UNCHANGED <<backend, atlasSize, output_data_buffers, newtonVars, kernelVars, streamVars, functionVars>>
  /\ openMaps' = [openMaps EXCEPT !.obj = @ - 1]
  /\ log' = Append(log, "obj_unmap")
  /\ IF exc
     THEN LeaveRender("Exception")
     ELSE pc' = "step" /\ UNCHANGED <<lastResult, localVars>>
  /\ UNCHANGED <<progVars, tiled_data, camSlot, objSlot, nextRid, nextHandle, lastOp,
                 atCall, prev>>

\* _update_object_transforms(): leaving the with-block unmaps; "except Exception"
\* swallows what the block raised
ObjectExit ==
  /\ pc = "object_exit"
  /\ UNCHANGED <<backend, atlasSize, output_data_buffers, newtonVars, kernelVars, streamVars, functionVars>>
  /\ openMaps' = [openMaps EXCEPT !.obj = @ - 1]
  /\ log' = log \o <<"obj_unmap">> \o (IF exc THEN ObjectFailureReport ELSE <<>>)
  /\ exc' = FALSE
  /\ pc' = "step"
  /\ UNCHANGED <<progVars, camera_transforms, env_idx, newton_state, tiled_data, camSlot,
                 objSlot, nextRid, nextHandle, lastOp, lastResult, atCall, prev>>

\* render(): "if self._renderer is not None and len(self._render_product_paths) > 0"
CanStep == renderer # 0 /\ Len(render_product_paths) > 0

\* render(): self._renderer.step(...) is called (a blocking call)
StepInvoke ==
  /\ pc = "step"
  /\ UNCHANGED <<backend, atlasSize, output_data_buffers, newtonVars, kernelVars, streamVars, functionVars>>
  /\ IF CanStep
     THEN /\ log' = Append(log, "step")
          /\ pc' = "stepping"
          /\ UNCHANGED <<lastResult, localVars>>
     ELSE /\ LeaveRender("ok")
          /\ UNCHANGED log
  /\ UNCHANGED <<progVars, extVars, lastOp, atCall, prev>>

\* Variant of StepReturn: a frame whose step raised is not counted
StepReturnUncounted ==
  /\ pc = "stepping"
  /\ UNCHANGED <<backend, atlasSize, output_data_buffers, newtonVars, kernelVars, streamVars, functionVars>>
  /\ \/ /\ log' = log \o <<"step_raise", "report_step">>
        /\ frame_counter' = frame_counter - 1
        /\ LeaveRender("ok")
     \/ \E outcome \in {"no_product", "no_frames", "no_var"} :
          /\ log' = Append(log, "step_" \o outcome)
          /\ UNCHANGED frame_counter
          /\ LeaveRender("ok")
     \/ /\ log' = Append(log, "step_frame")
        /\ pc' = "frame_map"
        /\ UNCHANGED <<frame_counter, lastResult, localVars>>
  /\ UNCHANGED <<renderer, usd_handles, camera_binding, object_binding,
                 object_newton_indices, render_product_paths, initialized_scene,
                 output_rgba, output_depth, extVars, lastOp, atCall, prev>>

\* Variant of StepReturn: no except clause, an exception of step() leaves render()
StepReturnUncaught ==
  /\ pc = "stepping"
  /\ UNCHANGED <<backend, atlasSize, output_data_buffers, newtonVars, kernelVars, streamVars, functionVars>>
  /\ \/ /\ log' = Append(log, "step_raise")
        /\ LeaveRender("Exception")
     \/ \E outcome \in {"no_product", "no_frames", "no_var"} :
          /\ log' = Append(log, "step_" \o outcome)
          /\ LeaveRender("ok")
     \/ /\ log' = Append(log, "step_frame")
        /\ pc' = "frame_map"
        /\ UNCHANGED <<lastResult, localVars>>
  /\ UNCHANGED <<progVars, extVars, lastOp, atCall, prev>>

\* Variant of StepReturn: a step that returns without the colour frame
\* clears the colour buffer
StepReturnClearsOutput ==
  /\ pc = "stepping"
  /\ UNCHANGED <<backend, atlasSize, output_data_buffers, newtonVars, kernelVars, streamVars, functionVars>>
  /\ \/ /\ log' = log \o <<"step_raise", "report_step">>
        /\ UNCHANGED output_rgba
        /\ LeaveRender("ok")
     \/ \E outcome \in {"no_product", "no_frames", "no_var"} :
          /\ log' = Append(log, "step_" \o outcome)
          /\ output_rgba' = ZerosRgba
          /\ LeaveRender("ok")
     \/ /\ log' = Append(log, "step_frame")
        /\ pc' = "frame_map"
        /\ UNCHANGED <<output_rgba, lastResult, localVars>>
  /\ UNCHANGED <<renderer, usd_handles, camera_binding, object_binding,
                 object_newton_indices, render_product_paths, initialized_scene,
                 frame_counter, output_depth, extVars, lastOp, atCall, prev>>

\* render(): step() raises or returns, and the lookups down to
\* frame.render_vars["LdrColor"]; "except Exception" prints and returns
StepReturn ==
  /\ pc = "stepping"
  /\ UNCHANGED <<backend, atlasSize, output_data_buffers, newtonVars, kernelVars, streamVars, functionVars>>
  /\ \/ \E outcome \in {"raise", "no_product", "no_frames", "no_var"} :
          /\ log' = log \o <<"step_" \o outcome>>
                        \o (IF outcome = "raise" THEN <<"report_step">> ELSE <<>>)
          /\ LeaveRender("ok")
     \/ /\ log' = Append(log, "step_frame")
        /\ pc' = "frame_map"
        /\ UNCHANGED <<lastResult, localVars>>
  /\ UNCHANGED <<progVars, extVars, lastOp, atCall, prev>>

\* render(): "with frame.render_vars["LdrColor"].map(device="cuda") as mapping"
FrameMap ==
  /\ pc = "frame_map"
  /\ UNCHANGED <<backend, atlasSize, output_data_buffers, newtonVars, kernelVars, streamVars, functionVars>>
  /\ \/ /\ tiled_data' = RenderedImage(frame_counter, atlasSize)
        /\ openMaps' = [openMaps EXCEPT !.frame = @ + 1]
        /\ log' = Append(log, "frame_map")
        /\ pc' = "extract"
        /\ UNCHANGED <<lastResult, localVars>>
     \/ /\ log' = log \o <<"frame_map_raise", "report_step">>
        /\ LeaveRender("ok")
        /\ UNCHANGED <<tiled_data, openMaps>>
  /\ UNCHANGED <<progVars, camSlot, objSlot, nextRid, nextHandle, lastOp, atCall, prev>>

\* Variant of ExtractTile: the commented-out depth extraction (lines 639-645)
\* enabled, the depth tile of env_idx filled from the frame
ExtractTileWithDepth ==
  /\ pc = "extract"
  /\ UNCHANGED <<backend, atlasSize, output_data_buffers, newtonVars, kernelVars, streamVars, functionVars>>
  /\ \E outcome \in {"ok", "raise"},
        oob \in (IF atlasSize.w < tiled_width \/ atlasSize.h < tiled_height
                 THEN Garbage ELSE {ZeroPixel}) :
       IF outcome = "ok"
       THEN /\ output_rgba' =
                 [output_rgba EXCEPT
                    ![env_idx] = ExtractEnvTile(AddressedMemory(tiled_data, oob), env_idx)]
            /\ output_depth' =
                 [output_depth EXCEPT
                    ![env_idx] = [y \in 0 .. TileHeight - 1 |->
                                    [x \in 0 .. TileWidth - 1 |-> frame_counter]]]
            /\ env_idx' = env_idx + 1
            /\ log' = Append(log, "extract")
            /\ pc' = IF env_idx + 1 < NumEnvs THEN "extract" ELSE "frame_exit"
            /\ exc' = FALSE
       ELSE /\ log' = Append(log, "extract_raise")
            /\ exc' = TRUE
            /\ pc' = "frame_exit"
            /\ UNCHANGED <<output_rgba, output_depth, env_idx>>
  /\ UNCHANGED <<renderer, usd_handles, camera_binding, object_binding,
                 object_newton_indices, render_product_paths, initialized_scene,
                 frame_counter, camera_transforms, newton_state, extVars,
                 lastOp, lastResult, atCall, prev>>

\* render(): one iteration of "for env_idx in range(self._num_envs)": the
\* extraction kernel writes output_data_buffers["rgba"][env_idx] in place; the
\* size of tiled_data is printed and not compared with (tiled_width, tiled_height)
ExtractTile ==
  /\ pc = "extract"
  /\ UNCHANGED <<backend, atlasSize, output_data_buffers, newtonVars, kernelVars, streamVars, functionVars>>
  /\ \E outcome \in {"ok", "raise"},
        oob \in (IF atlasSize.w < tiled_width \/ atlasSize.h < tiled_height
                 THEN Garbage ELSE {ZeroPixel}) :
       IF outcome = "ok"
       THEN /\ output_rgba' =
                 [output_rgba EXCEPT
                    ![env_idx] = ExtractEnvTile(AddressedMemory(tiled_data, oob), env_idx)]
            /\ env_idx' = env_idx + 1
            /\ log' = Append(log, "extract")
            /\ pc' = IF env_idx + 1 < NumEnvs THEN "extract" ELSE "frame_exit"
            /\ exc' = FALSE
       ELSE /\ log' = Append(log, "extract_raise")
            /\ exc' = TRUE
            /\ pc' = "frame_exit"
            /\ UNCHANGED <<output_rgba, env_idx>>
  /\ UNCHANGED <<renderer, usd_handles, camera_binding, object_binding,
                 object_newton_indices, render_product_paths, initialized_scene,
                 frame_counter, output_depth, camera_transforms, newton_state, extVars,
                 lastOp, lastResult, atCall, prev>>

\* render(): leaving the LdrColor with-block unmaps; "except Exception" swallows
\* what the block raised; render() returns
FrameExit ==
  /\ pc = "frame_exit"
  /\ UNCHANGED <<backend, atlasSize, output_data_buffers, newtonVars, kernelVars, streamVars, functionVars>>
  /\ openMaps' = [openMaps EXCEPT !.frame = @ - 1]
  /\ log' = log \o <<"frame_unmap">> \o (IF exc THEN <<"report_step">> ELSE <<>>)
  /\ LeaveRender("ok")
  /\ UNCHANGED <<progVars, tiled_data, camSlot, objSlot, nextRid, nextHandle, lastOp,
                 atCall, prev>>

(* --------------------------- other handlers ---------------------------- *)
\* _setup_object_bindings(): the new (object_binding, object_newton_indices) for
\* Newton model m ("import_raise", "none", or a key of NewtonModels) and
\* bind_attribute outcome b; every exception is swallowed inside
SetupObjectBindings(rid, m, b) ==
  LET keep == [binding |-> object_binding, indices |-> object_newton_indices, fresh |-> FALSE]
  IN  IF m \in {"import_raise", "none"} THEN keep
      ELSE LET newton_indices == NewtonIndices(NewtonModels[m].body_key)
           IN  IF Len(newton_indices) = 0 THEN keep
               ELSE CASE b = "raise" -> keep
                      [] b = "none" -> [keep EXCEPT !.binding = 0]
                      [] b = "ok" -> [binding |-> rid, indices |-> newton_indices, fresh |-> TRUE]

\* the outcomes of bind_attribute for the objects that matter for model m
ObjectBindOutcomes(m) == IF m = "dynamic" THEN {"ok", "none", "raise"} ELSE {"none"}

\* initialize(usd_scene_path): has_scene says whether a path was given; the
\* outcomes of the external calls are drawn where the calls are made
Initialize(has_scene) ==
  /\ pc = "idle"
  /\ backend = "ovrtx"
  /\ UNCHANGED <<backend, atlasSize, newtonVars, kernelVars, streamVars, functionVars>>
  /\ nextRid < MaxInits
  /\ has_scene => nextHandle < MaxHandles
  /\ lastOp' = "initialize"
  /\ atCall' = NoCall
  /\ prev' = NoPrev
  /\ UNCHANGED <<frame_counter, localVars, tiled_data, openMaps, pc>>
  /\ \/ \* Renderer(OVRTX_CONFIG) raises
        /\ lastResult' = "Exception"
        /\ log' = <<>>
        /\ UNCHANGED <<renderer, usd_handles, camera_binding, object_binding,
                       object_newton_indices, render_product_paths, initialized_scene,
                       output_rgba, output_depth, output_data_buffers, camSlot, objSlot,
                       nextRid, nextHandle>>
     \/ /\ renderer' = nextRid + 1
        /\ nextRid' = nextRid + 1
        /\ output_data_buffers' = AllocatedBuffers(nextRid + 1)
        /\ output_rgba' = ZerosRgba
        /\ output_depth' = ZerosDepth
        /\ IF ~has_scene
           THEN /\ lastResult' = "ok"
                /\ log' = <<>>
                /\ UNCHANGED <<usd_handles, camera_binding, object_binding,
                               object_newton_indices, render_product_paths,
                               initialized_scene, camSlot, objSlot, nextHandle>>
           ELSE \/ \* _inject_cameras_into_usd: reading the scene file raises
                   /\ lastResult' = "Exception"
                   /\ log' = <<>>
                   /\ UNCHANGED <<usd_handles, camera_binding, object_binding,
                                  object_newton_indices, render_product_paths,
                                  initialized_scene, camSlot, objSlot, nextHandle>>
                \/ \* writing the combined file or add_usd raises
                   /\ render_product_paths' = Append(render_product_paths, RenderProductPath)
                   /\ lastResult' = "Exception"
                   /\ \E l \in {<<>>, <<"add_usd_raise">>} : log' = l
                   /\ UNCHANGED <<usd_handles, camera_binding, object_binding,
                                  object_newton_indices, initialized_scene, camSlot,
                                  objSlot, nextHandle>>
                \/ /\ render_product_paths' = Append(render_product_paths, RenderProductPath)
                   /\ usd_handles' = Append(usd_handles, nextHandle + 1)
                   /\ nextHandle' = nextHandle + 1
                   /\ initialized_scene' = TRUE
                   /\ \/ \* bind_attribute for the cameras raises
                         /\ lastResult' = "Exception"
                         /\ log' = <<"add_usd", "bind_camera_raise">>
                         /\ UNCHANGED <<camera_binding, object_binding,
                                        object_newton_indices, camSlot, objSlot>>
                      \/ \E cambind \in {"ok", "none"},
                            m \in {"import_raise", "none", "static", "dynamic"} :
                           \E objbind \in ObjectBindOutcomes(m) :
                             LET ob == SetupObjectBindings(nextRid + 1, m, objbind)
                             IN  /\ camera_binding' = IF cambind = "ok" THEN nextRid + 1 ELSE 0
                                 /\ camSlot' = <<>>
                                 /\ object_binding' = ob.binding
                                 /\ object_newton_indices' = ob.indices
                                 /\ objSlot' = IF ob.fresh THEN <<>> ELSE objSlot
                                 /\ lastResult' = "ok"
                                 /\ log' = <<"add_usd", "bind_camera">>

\* Variant of AddUsdScene: a loaded scene marks the renderer scene-bound
AddUsdSceneBinds ==
  /\ pc = "idle"
  /\ backend = "ovrtx"
  /\ UNCHANGED <<backend, atlasSize, output_data_buffers, newtonVars, kernelVars, streamVars, functionVars>>
  /\ renderer # 0 => nextHandle < MaxHandles
  /\ lastOp' = "add_usd_scene"
  /\ IF renderer = 0
     THEN /\ lastResult' = "RuntimeError"
          /\ log' = <<>>
          /\ UNCHANGED <<usd_handles, nextHandle, initialized_scene>>
     ELSE \/ /\ lastResult' = "Exception"
             /\ log' = <<"add_usd_raise">>
             /\ UNCHANGED <<usd_handles, nextHandle, initialized_scene>>
          \/ /\ usd_handles' = Append(usd_handles, nextHandle + 1)
             /\ nextHandle' = nextHandle + 1
             /\ initialized_scene' = TRUE
             /\ lastResult' = "ok"
             /\ log' = <<"add_usd">>
  /\ UNCHANGED <<renderer, camera_binding, object_binding, object_newton_indices,
                 render_product_paths, frame_counter, output_rgba,
                 output_depth, pc, localVars, tiled_data, camSlot, objSlot, openMaps,
                 nextRid>>
  /\ atCall' = NoCall
  /\ prev' = NoPrev

\* add_usd_scene(usd_file_path)
AddUsdScene ==
  /\ pc = "idle"
  /\ backend = "ovrtx"
  /\ UNCHANGED <<backend, atlasSize, output_data_buffers, newtonVars, kernelVars, streamVars, functionVars>>
  /\ renderer # 0 => nextHandle < MaxHandles
  /\ lastOp' = "add_usd_scene"
  /\ IF renderer = 0
     THEN /\ lastResult' = "RuntimeError"
          /\ log' = <<>>
          /\ UNCHANGED <<usd_handles, nextHandle>>
     ELSE \/ /\ lastResult' = "Exception"
             /\ log' = <<"add_usd_raise">>
             /\ UNCHANGED <<usd_handles, nextHandle>>
          \/ /\ usd_handles' = Append(usd_handles, nextHandle + 1)
             /\ nextHandle' = nextHandle + 1
             /\ lastResult' = "ok"
             /\ log' = <<"add_usd">>
  /\ UNCHANGED <<renderer, camera_binding, object_binding, object_newton_indices,
                 render_product_paths, initialized_scene, frame_counter, output_rgba,
                 output_depth, pc, localVars, tiled_data, camSlot, objSlot, openMaps,
                 nextRid>>
  /\ atCall' = NoCall
  /\ prev' = NoPrev

\* Variant of Reset: the reset also restarts the frame numbering and zeroes
\* the colour buffers
ResetRestartsFrames ==
  /\ pc = "idle"
  /\ backend = "ovrtx"
  /\ UNCHANGED <<backend, atlasSize, output_data_buffers, newtonVars, kernelVars, streamVars, functionVars>>
  /\ lastOp' = "reset"
  /\ IF renderer # 0
     THEN /\ log' = <<"renderer_reset">>
          /\ \E r \in {"ok", "Exception"} : lastResult' = r
          /\ frame_counter' = 0
          /\ output_rgba' = ZerosRgba
     ELSE /\ log' = <<>>
          /\ lastResult' = "ok"
          /\ UNCHANGED <<frame_counter, output_rgba>>
  /\ atCall' = NoCall
  /\ prev' = NoPrev
  /\ UNCHANGED <<renderer, usd_handles, camera_binding, object_binding,
                 object_newton_indices, render_product_paths, initialized_scene,
                 output_depth, localVars, extVars, pc>>

\* reset(): "if self._renderer: self._renderer.reset(time=0.0)"
Reset ==
  /\ pc = "idle"
  /\ backend = "ovrtx"
  /\ UNCHANGED <<backend, atlasSize, output_data_buffers, newtonVars, kernelVars, streamVars, functionVars>>
  /\ lastOp' = "reset"
  /\ IF renderer # 0
     THEN /\ log' = <<"renderer_reset">>
          /\ \E r \in {"ok", "Exception"} : lastResult' = r
     ELSE /\ log' = <<>>
          /\ lastResult' = "ok"
  /\ atCall' = NoCall
  /\ prev' = NoPrev
  /\ UNCHANGED <<progVars, localVars, extVars, pc>>

\* step(): pass
Step ==
  /\ pc = "idle"
  /\ backend = "ovrtx"
  /\ UNCHANGED <<backend, atlasSize, output_data_buffers, newtonVars, kernelVars, streamVars, functionVars>>
  /\ lastOp' = "step"
  /\ lastResult' = "ok"
  /\ log' = <<>>
  /\ atCall' = NoCall
  /\ prev' = NoPrev
  /\ UNCHANGED <<progVars, localVars, extVars, pc>>

RECURSIVE RemoveEventsUntilFailure(_, _)
\* Variant of RemoveEvents: no try around remove_usd, the first failure ends the loop
RemoveEventsUntilFailure(n, failing) ==
  IF n = 0 THEN <<>>
  ELSE IF \E k \in failing : k < n
       THEN RemoveEventsUntilFailure(n - 1, failing)
       ELSE RemoveEventsUntilFailure(n - 1, failing)
              \o (IF n \in failing THEN <<"remove_usd_raise">> ELSE <<"remove_usd">>)

RECURSIVE RemoveEvents(_, _)
\* close(): the remove_usd loop over the n handles; failing holds the positions
\* whose remove_usd raises (each caught inside the loop)
RemoveEvents(n, failing) ==
  IF n = 0 THEN <<>>
  ELSE RemoveEvents(n - 1, failing)
         \o (IF n \in failing THEN <<"remove_usd_raise">> ELSE <<"remove_usd">>)

\* close()
Close ==
  /\ pc = "idle"
  /\ backend = "ovrtx"
  /\ UNCHANGED <<backend, atlasSize, output_data_buffers, newtonVars, kernelVars, streamVars, functionVars>>
  /\ lastOp' = "close"
  /\ lastResult' = "ok"
  /\ camera_binding' = 0
  /\ \E unbind \in (IF camera_binding # 0 THEN {"unbind_camera", "unbind_camera_raise"}
                                          ELSE {"no_unbind"}),
        failing \in (IF renderer # 0 THEN SUBSET (1 .. Len(usd_handles)) ELSE {{}}) :
       log' = (IF camera_binding # 0 THEN <<unbind>> ELSE <<>>)
              \o (IF renderer # 0 THEN RemoveEvents(Len(usd_handles), failing) ELSE <<>>)
  /\ IF renderer # 0
     THEN usd_handles' = <<>> /\ renderer' = 0
     ELSE UNCHANGED <<usd_handles, renderer>>
  /\ render_product_paths' = <<>>
  /\ initialized_scene' = FALSE
  /\ atCall' = NoCall
  /\ prev' = NoPrev
  /\ UNCHANGED <<object_binding, object_newton_indices, frame_counter, output_rgba,
                 output_depth, pc, localVars, extVars>>

\* get_output() of the renderer base class: returns _output_data_buffers, the
\* mapping from data type to the array now bound to it; changes nothing
GetOutput ==
  /\ pc = "idle"
  /\ lastOp' = "get_output"
  /\ lastResult' = "ok"
  /\ log' = <<>>
  /\ atCall' = NoCall
  /\ prev' = NoPrev
  /\ UNCHANGED <<progVars, localVars, extVars, pc, backend, atlasSize, output_data_buffers,
                 newtonVars, kernelVars, streamVars, functionVars>>

(* ------------------------- NewtonWarpRenderer -------------------------- *)
\* Pixels per camera image in the sensor's raw buffers (width * height)
PixelsPerImage == TileWidth * TileHeight

\* One packed uint32 of the raw colour buffer: 4 bytes, byte 0 lowest
PackBytes(c0, c1, c2, c3) == c0 + 256 * c1 + 65536 * c2 + 16777216 * c3

\* Variant of UnpackBytes: the high byte taken as channel 0
UnpackBytesHighFirst(packed_color) ==
  << (packed_color \div 16777216) % 256,
     (packed_color \div 65536) % 256,
     (packed_color \div 256) % 256,
     packed_color % 256 >>

\* The bytes of a packed uint32, lowest first: (packed >> 8k) & 0xFF
UnpackBytes(packed_color) ==
  << packed_color % 256,
     (packed_color \div 256) % 256,
     (packed_color \div 65536) % 256,
     (packed_color \div 16777216) % 256 >>

\* create_color_image_output() / create_depth_image_output(): the raw buffers
\* of the sensor, shape (num_envs, 1, width * height)
EmptyRawImage == [e \in Envs |-> [i \in 0 .. PixelsPerImage - 1 |-> 0]]

\* What TiledCameraSensor.render writes for frame f: a colour per environment
\* and pixel, distinct per frame
SensorColorImage(f) ==
  [e \in Envs |-> [i \in 0 .. PixelsPerImage - 1 |-> PackBytes(f, e, i, 127)]]
SensorDepthImage(f) ==
  [e \in Envs |-> [i \in 0 .. PixelsPerImage - 1 |-> f + e + i]]

\* wp.array(ptr=reshape_rgba.ptr, shape=(num_envs, height, width, 4), dtype=uint8):
\* the raw buffer's memory read as bytes
RawAsRgba(raw) ==
  [e \in Envs |->
     [y \in 0 .. TileHeight - 1 |->
        [x \in 0 .. TileWidth - 1 |-> UnpackBytes(raw[e][y * TileWidth + x])]]]
\* raw depth buffer reshaped to (num_envs, height, width, 1)
RawAsDepth(raw) ==
  [e \in Envs |->
     [y \in 0 .. TileHeight - 1 |-> [x \in 0 .. TileWidth - 1 |-> raw[e][y * TileWidth + x]]]]

\* render(): the arrays the data types are bound to after a render of sensor n
RawBuffers(n) ==
  LET rgba == [base |-> <<"raw_rgb", n>>, channels |-> 4]
  IN  [rgba |-> rgba,
       rgb |-> FirstThreeChannels(rgba),
       depth |-> [base |-> <<"raw_depth", n>>, channels |-> 1]]

\* The intrinsic matrices a caller may pass, told apart by their focal length
Intrinsics == 1 .. NumIntrinsics

ovrtxVars == <<renderer, usd_handles, camera_binding, object_binding, object_newton_indices,
               render_product_paths, initialized_scene, localVars, tiled_data, camSlot,
               objSlot, openMaps, nextHandle, pc>>

\* NewtonWarpRenderer.initialize()
NewtonInitialize ==
  /\ backend = "newton"
  /\ nextRid < MaxInits
  /\ lastOp' = "initialize"
  /\ atCall' = NoCall
  /\ prev' = NoPrev
  /\ \E m \in {0, 1} : model' = m
  /\ \/ \* TiledCameraSensor(...) raises
        /\ lastResult' = "Exception"
        /\ log' = <<"sensor_raise">>
        /\ UNCHANGED <<tiled_camera_sensor, camera_rays, raw_output_rgb_buffer,
                       raw_output_depth_buffer, output_data_buffers, output_rgba,
                       output_depth, nextRid>>
     \/ /\ tiled_camera_sensor' = nextRid + 1
        /\ nextRid' = nextRid + 1
        /\ camera_rays' = <<>>
        /\ \/ \* _initialize_output(): creating the raw buffers raises
              /\ lastResult' = "Exception"
              /\ log' = <<"sensor", "create_output_raise">>
              /\ UNCHANGED <<raw_output_rgb_buffer, raw_output_depth_buffer,
                             output_data_buffers, output_rgba, output_depth>>
           \/ /\ raw_output_rgb_buffer' = EmptyRawImage
              /\ raw_output_depth_buffer' = EmptyRawImage
              /\ output_data_buffers' = AllocatedBuffers(nextRid + 1)
              /\ output_rgba' = ZerosRgba
              /\ output_depth' = ZerosDepth
              /\ lastResult' = "ok"
              /\ log' = <<"sensor", "create_output">>
  /\ UNCHANGED <<ovrtxVars, frame_counter, backend, atlasSize, kernelVars, streamVars, functionVars>>

\* Variant of CameraRaysUnset: the rays are recomputed in every render()
CameraRaysUnsetAlways == TRUE

\* render(): "if self._camera_rays is None"
CameraRaysUnset == camera_rays = <<>>

\* Variant of NewtonOutputAfterRender: rgb is not derived again from the new
\* rgba array, it stays the view made at allocation
NewtonOutputRgbStale(n) == [RawBuffers(n) EXCEPT !.rgb = output_data_buffers.rgb]

\* render(): the arrays bound to the data types after the sensor has rendered
NewtonOutputAfterRender(n) == RawBuffers(n)

\* NewtonWarpRenderer.render(camera_positions, camera_orientations, intrinsic_matrices):
\* nothing in it is inside a try, so what an external call raises leaves render()
NewtonRender(intrinsic) ==
  /\ backend = "newton"
  /\ frame_counter < MaxFrames
  /\ lastOp' = "render"
  /\ frame_counter' = frame_counter + 1
  /\ atCall' = [rgba |-> output_rgba, depth |-> output_depth, frame |-> frame_counter,
                buffers |-> output_data_buffers]
  /\ prev' = IF lastOp = "render"
             THEN [step_raised |-> Has("sensor_render_raise"), no_state |-> FALSE]
             ELSE NoPrev
  /\ IF tiled_camera_sensor = 0
     THEN \* self._camera_rays was never assigned
          /\ lastResult' = "AttributeError"
          /\ log' = <<>>
          /\ UNCHANGED <<camera_rays, raw_output_rgb_buffer, raw_output_depth_buffer,
                         output_data_buffers, output_rgba, output_depth>>
     ELSE \/ \* set_camera_rays_from_intrinsics raises
             /\ CameraRaysUnset
             /\ lastResult' = "Exception"
             /\ log' = <<"set_rays_raise">>
             /\ UNCHANGED <<camera_rays, raw_output_rgb_buffer, raw_output_depth_buffer,
                            output_data_buffers, output_rgba, output_depth>>
          \/ /\ camera_rays' = IF CameraRaysUnset THEN <<intrinsic>> ELSE camera_rays
             /\ LET rays == IF CameraRaysUnset THEN <<"set_rays">> ELSE <<>>
                IN  IF raw_output_rgb_buffer = <<>>
                    THEN \* self._raw_output_rgb_buffer was never assigned
                         /\ lastResult' = "AttributeError"
                         /\ log' = rays
                         /\ UNCHANGED <<raw_output_rgb_buffer, raw_output_depth_buffer,
                                        output_data_buffers, output_rgba, output_depth>>
                    ELSE \/ \* self._tiled_camera_sensor.render(...) raises
                            /\ lastResult' = "Exception"
                            /\ log' = rays \o <<"sensor_render_raise">>
                            /\ UNCHANGED <<raw_output_rgb_buffer, raw_output_depth_buffer,
                                           output_data_buffers, output_rgba, output_depth>>
                         \/ /\ raw_output_rgb_buffer' = SensorColorImage(frame_counter + 1)
                            /\ raw_output_depth_buffer' = SensorDepthImage(frame_counter + 1)
                            /\ output_data_buffers' = NewtonOutputAfterRender(tiled_camera_sensor)
                            /\ output_rgba' = RawAsRgba(SensorColorImage(frame_counter + 1))
                            /\ output_depth' = RawAsDepth(SensorDepthImage(frame_counter + 1))
                            /\ lastResult' = "ok"
                            /\ log' = rays \o <<"sensor_render">>
  /\ UNCHANGED <<ovrtxVars, nextRid, model, tiled_camera_sensor, backend, atlasSize, kernelVars, streamVars, functionVars>>

\* NewtonWarpRenderer.step(): pass
NewtonStep ==
  /\ backend = "newton"
  /\ lastOp' = "step"
  /\ lastResult' = "ok"
  /\ log' = <<>>
  /\ atCall' = NoCall
  /\ prev' = NoPrev
  /\ UNCHANGED <<ovrtxVars, nextRid, frame_counter, output_rgba, output_depth, backend, atlasSize,
                 output_data_buffers, newtonVars, kernelVars, streamVars, functionVars>>

\* NewtonWarpRenderer.reset(): pass
NewtonReset ==
  /\ backend = "newton"
  /\ lastOp' = "reset"
  /\ lastResult' = "ok"
  /\ log' = <<>>
  /\ atCall' = NoCall
  /\ prev' = NoPrev
  /\ UNCHANGED <<ovrtxVars, nextRid, frame_counter, output_rgba, output_depth, backend, atlasSize,
                 output_data_buffers, newtonVars, kernelVars, streamVars, functionVars>>

\* NewtonWarpRenderer.close(): pass
NewtonClose ==
  /\ backend = "newton"
  /\ lastOp' = "close"
  /\ lastResult' = "ok"
  /\ log' = <<>>
  /\ atCall' = NoCall
  /\ prev' = NoPrev
  /\ UNCHANGED <<ovrtxVars, nextRid, frame_counter, output_rgba, output_depth, backend, atlasSize,
                 output_data_buffers, newtonVars, kernelVars, streamVars, functionVars>>

(* ---------------------------- kernel bench ----------------------------- *)
\* The tile kernels run on their own, for every number of environments up to
\* MaxKernelEnvs, on synthetic per-environment images.

\* render(): the tile of env_idx, and the kernel's source position for (x, y):
\* tile_x = env_idx % tiles_per_side, tile_y = env_idx // tiles_per_side,
\* src_x = tile_x * tile_width + x, src_y = tile_y * tile_height + y
ExtractSource(env, x, y, tiles_per_side, tile_width, tile_height) ==
  LET tile_x == env % tiles_per_side
      tile_y == env \div tiles_per_side
  IN  [src_x |-> tile_x * tile_width + x, src_y |-> tile_y * tile_height + y]

\* Variant of ConvertSource: the camera index taken column-major
ConvertSourceColumnMajor(x, y, image_width, image_height, num_tiles_x) ==
  LET tile_x == x \div image_width
      tile_y == y \div image_height
      pixel_x == x % image_width
      pixel_y == y % image_height
  IN  [camera_id |-> tile_x * num_tiles_x + tile_y,
       pixel_x |-> pixel_x,
       pixel_y |-> pixel_y,
       pixel_idx |-> pixel_y * image_width + pixel_x,
       output_x |-> tile_x * image_width + pixel_x]

\* _convert_raw_rgb_tiled: what thread (y, x) of the tiled grid reads
ConvertSource(x, y, image_width, image_height, num_tiles_x) ==
  LET tile_x == x \div image_width
      tile_y == y \div image_height
      pixel_x == x % image_width
      pixel_y == y % image_height
  IN  [camera_id |-> tile_y * num_tiles_x + tile_x,
       pixel_x |-> pixel_x,
       pixel_y |-> pixel_y,
       pixel_idx |-> pixel_y * image_width + pixel_x,
       output_x |-> tile_x * image_width + pixel_x]

\* _convert_raw_rgb_tiled launched over dim = (tiled_height, tiled_width) as
\* _save_tiled_image_to_disk does, on a raw buffer of n cameras; the kernel
\* has no bound on camera_id, a read of camera_id >= n gives oob
ConvertRawRgbTiled(raw_buffer, n, image_width, image_height, num_tiles_x, oob) ==
  [y \in 0 .. num_tiles_x * image_height - 1 |->
     [x \in 0 .. num_tiles_x * image_width - 1 |->
        LET s == ConvertSource(x, y, image_width, image_height, num_tiles_x)
        IN  IF s.camera_id < n
            THEN UnpackBytes(raw_buffer[s.camera_id][s.pixel_idx])
            ELSE oob]]

\* The synthetic raw colour buffer of n cameras: palette 0 fills every
\* environment with its own constant colour, the others also vary by pixel
SyntheticRaw(n, palette) ==
  [e \in 0 .. n - 1 |->
     [i \in 0 .. PixelsPerImage - 1 |-> PackBytes(palette + e, palette * i, e, 127)]]

rendererVars == <<progVars, localVars, extVars, pc, log, lastOp, lastResult, atCall, prev,
                  backend, atlasSize, output_data_buffers, newtonVars>>

\* The addressing of one pixel: forward as unpack does it, back as pack does it
KernelAddress ==
  /\ backend = "kernels"
  /\ \E e \in 0 .. k_num_envs - 1, x \in 0 .. TileWidth - 1, y \in 0 .. TileHeight - 1 :
       LET tps == CeilSqrt(k_num_envs)
           fwd == ExtractSource(e, x, y, tps, TileWidth, TileHeight)
           back == ConvertSource(fwd.src_x, fwd.src_y, TileWidth, TileHeight, tps)
       IN  k_addr' = [env |-> e, x |-> x, y |-> y, src_x |-> fwd.src_x, src_y |-> fwd.src_y,
                      camera_id |-> back.camera_id, pixel_x |-> back.pixel_x,
                      pixel_y |-> back.pixel_y]
  /\ k_op' = "address"
  /\ UNCHANGED <<rendererVars, functionVars, streamVars, k_num_envs, k_images, k_atlas, k_output>>

\* _save_tiled_image_to_disk(): the launch of _convert_raw_rgb_tiled
KernelPack ==
  /\ backend = "kernels"
  /\ k_atlas = <<>>
  /\ \/ \E oob \in Garbage :
          /\ k_atlas' = ConvertRawRgbTiled(k_images, k_num_envs, TileWidth, TileHeight,
                                           CeilSqrt(k_num_envs), oob)
          /\ k_op' = "pack"
     \/ \* a read past the end of the raw buffer faults: the launch fails, the
        \* except clause of _save_tiled_image_to_disk prints, no atlas is made
        /\ CeilSqrt(k_num_envs) * CeilSqrt(k_num_envs) > k_num_envs
        /\ k_op' = "pack_fault"
        /\ UNCHANGED k_atlas
  /\ UNCHANGED <<rendererVars, functionVars, streamVars, k_num_envs, k_images, k_output, k_addr>>

\* render(): the tile-extraction loop over the packed atlas
KernelUnpack ==
  /\ backend = "kernels"
  /\ k_atlas # <<>>
  /\ k_output' =
       [e \in 0 .. k_num_envs - 1 |->
          ExtractTileKernel(k_atlas, e % CeilSqrt(k_num_envs), e \div CeilSqrt(k_num_envs),
                            TileWidth, TileHeight)]
  /\ k_op' = "unpack"
  /\ UNCHANGED <<rendererVars, functionVars, streamVars, k_num_envs, k_images, k_atlas, k_addr>>

(* --------------------------- function bench ---------------------------- *)
\* The pure functions of the renderers applied once to an input drawn from a
\* bounded set: the body filter, the transform builders, the tile grid.

\* Body paths a Newton model can hold, cut into pieces at the markers
BenchPaths ==
  { <<"/World/envs/", "env_0/", "Robot", "/link0">>,
    <<"/World/envs/", "env_0/", "Camera">>,
    <<"/World/envs/", "env_0/", "GroundPlane">>,
    <<"/World/envs/", "env_0/", "object">>,
    <<"/World/envs/", "env_1/", "Robot", "/", "Camera", "Mount">>,
    <<"/World/", "GroundPlane">>,
    <<"/World/", "Table">> }
\* newton_model.body_key: up to MaxBodies bodies
BodyLists == UNION {[1 .. n -> BenchPaths] : n \in 0 .. MaxBodies}

\* camera_positions[i] and camera_orientations[i] of a render() call
Positions ==
  {<<x, y, z>> : x \in -MaxCoordinate .. MaxCoordinate,
                 y \in -MaxCoordinate .. MaxCoordinate,
                 z \in -MaxCoordinate .. MaxCoordinate}
Quaternions ==
  {QuatOf(k) : k \in 1 .. 4} \cup {[c \in 1 .. 4 |-> -QuatOf(k)[c]] : k \in 1 .. 4}

\* newton_warp_renderer._create_camera_transforms_kernel: wp.transformf(position,
\* orientation), the quaternion kept as given
NewtonCameraTransform(pos, quat) == [p |-> pos, q |-> quat]

\* _setup_object_bindings() on a model with the drawn body paths
BuildBodyIndexTable ==
  /\ backend = "functions"
  /\ f_op = "none"
  /\ \E all_body_paths \in BodyLists :
       /\ f_args' = all_body_paths
       /\ f_value' = NewtonIndices(all_body_paths)
  /\ f_op' = "body_index_table"
  /\ UNCHANGED <<rendererVars, kernelVars, streamVars>>

\* The transform kernels of both renderers on one camera pose
BuildCameraTransform ==
  /\ backend = "functions"
  /\ f_op = "none"
  /\ \E pos \in Positions, quat \in Quaternions :
       /\ f_args' = [p |-> pos, q |-> quat]
       /\ f_value' = [ovrtx |-> CreateCameraTransform(pos, quat),
                      newton |-> NewtonCameraTransform(pos, quat)]
  /\ f_op' = "camera_transform"
  /\ UNCHANGED <<rendererVars, kernelVars, streamVars>>

\* Bytes of a raw colour pixel: the ends and the middle of 0 .. 255; the top
\* byte stays below 128, a packed value being held in a signed 32-bit integer
ByteSamples == {0, 1, 127, 128, 255}
TopByteSamples == {0, 1, 127}

\* _convert_raw_rgb_tiled, lines 85-88, on one packed pixel of the raw buffer
UnpackPixel ==
  /\ backend = "functions"
  /\ f_op = "none"
  /\ \E c0 \in ByteSamples, c1 \in ByteSamples, c2 \in ByteSamples, c3 \in TopByteSamples :
       /\ f_args' = [bytes |-> <<c0, c1, c2, c3>>, packed_color |-> PackBytes(c0, c1, c2, c3)]
       /\ f_value' = UnpackBytes(PackBytes(c0, c1, c2, c3))
  /\ f_op' = "unpack_pixel"
  /\ UNCHANGED <<rendererVars, kernelVars, streamVars>>

\* camera_orientations[i] with a fractional part: the 24 unit quaternions
\* whose components are all 0 or +-1, or all +-1/2, as numerators over 2
HalfQuaternions ==
  {q \in [1 .. 4 -> -2 .. 2] : q[1] * q[1] + q[2] * q[2] + q[3] * q[3] + q[4] * q[4] = 4}
\* The pose of a second camera of the same render() call, numerators over 2
SecondPoses ==
  { [p |-> <<1, 0, -1>>, q |-> <<1, 1, 1, 1>>],
    [p |-> <<0, 0, 0>>, q |-> <<0, 0, 0, 2>>] }

\* The camera-transform kernel launched over two cameras, and the sync
\* kernel launched over two bodies that have the same two poses
BuildTransformArrays ==
  /\ backend = "functions"
  /\ f_op = "none"
  /\ \E pos \in Positions, quat \in HalfQuaternions, second \in SecondPoses :
       LET camera_positions == [i \in 0 .. 1 |-> IF i = 0 THEN pos ELSE second.p]
           camera_orientations == [i \in 0 .. 1 |-> IF i = 0 THEN quat ELSE second.q]
           newton_body_q ==
             [b \in 0 .. 1 |-> [p |-> camera_positions[b], q |-> camera_orientations[b]]]
       IN  /\ f_args' = [positions |-> camera_positions,
                         orientations |-> camera_orientations]
           /\ f_value' =
                [camera |-> [i \in 0 .. 1 |->
                               CreateCameraTransformOver(camera_positions[i],
                                                         camera_orientations[i], 2)],
                 sync |-> SyncNewtonTransformsOver(<<0, 1>>, newton_body_q, 2)]
  /\ f_op' = "transform_arrays"
  /\ UNCHANGED <<rendererVars, kernelVars, streamVars>>

\* OVRTXRenderer.__init__ and NewtonWarpRenderer._initialize_output /
\* _save_tiled_image_to_disk for num_envs environments
BuildTileGrid ==
  /\ backend = "functions"
  /\ f_op = "none"
  /\ \E num_envs \in 1 .. MaxGridEnvs :
       /\ f_args' = num_envs
       /\ f_value' =
            [ovrtx |-> [num_tiles_per_side |-> CeilSqrt(num_envs),
                        tiled_width |-> CeilSqrt(num_envs) * TileWidth,
                        tiled_height |-> CeilSqrt(num_envs) * TileHeight],
             newton |-> [num_tiles_per_side |-> CeilSqrt(num_envs),
                         tiled_width |-> CeilSqrt(num_envs) * TileWidth,
                         tiled_height |-> CeilSqrt(num_envs) * TileHeight]]
  /\ f_op' = "tile_grid"
  /\ UNCHANGED <<rendererVars, kernelVars, streamVars>>

(* ---------------------------- device stream ---------------------------- *)
\* One render() call whose external calls all succeed, seen from the CUDA
\* stream of cuda:0.  wp.launch and wp.copy put an operation on the stream and
\* return; the device completes the operations in stream order at its own
\* pace.  render() contains no wp.synchronize() and waits for no event: the
\* host waits for the stream only inside a call into another library (a
\* binding's map or unmap, renderer.step, torch's .cpu()) and only if that
\* call does so, which the code does not determine.

\* The operations of the stream
StreamOp(name, idx) == <<name, idx>>
ExtractOps == {StreamOp("extract_kernel", e) : e \in Envs}
\* Those of ops that were put on the stream and are not complete
Pending(ops) == {o \in ops : \E i \in 1 .. Len(cuda.queue) : cuda.queue[i] = o}
Queued == {cuda.queue[i] : i \in 1 .. Len(cuda.queue)}

\* wp.launch / wp.copy: op is put on the stream, the host goes on
Enqueue(next, op) == cuda' = [cuda EXCEPT !.host = next, !.queue = Append(@, op)]

\* A call into another library that uses what the operations `producers`
\* write: either it waits for the stream, or it does not and uses the output
\* of those still pending
ExternalCall(next, producers) ==
  \E joins \in BOOLEAN :
     cuda' = IF joins
             THEN [cuda EXCEPT !.host = next, !.completed = @ \cup Queued, !.queue = <<>>]
             ELSE [cuda EXCEPT !.host = next, !.early = @ \cup Pending(producers)]

StreamStays == UNCHANGED <<rendererVars, kernelVars, functionVars>>

\* render(): wp.zeros and the launch of _create_camera_transforms_kernel
StreamLaunchCameraTransforms ==
  /\ backend = "stream" /\ cuda.host = "start"
  /\ Enqueue("camera_stage", StreamOp("transform_kernel", 0))
  /\ StreamStays

\* render(): "if self._camera_binding is not None: with ...map(...)"
StreamCameraMap ==
  /\ backend = "stream" /\ cuda.host = "camera_stage"
  /\ IF cuda.camera_binding
     THEN ExternalCall(IF cuda.frame = 1 THEN "camera_debug" ELSE "camera_copy", {})
     ELSE cuda' = [cuda EXCEPT !.host = "object_stage"]
  /\ StreamStays

\* _print_camera_transforms_debug on the first frame: wp.to_torch(...).cpu()
StreamCameraDebug ==
  /\ backend = "stream" /\ cuda.host = "camera_debug"
  /\ ExternalCall("camera_copy", {})
  /\ StreamStays

\* render(): wp.copy(wp_transforms_view, camera_transforms)
StreamCameraCopy ==
  /\ backend = "stream" /\ cuda.host = "camera_copy"
  /\ Enqueue("camera_unmap", StreamOp("camera_copy", 0))
  /\ StreamStays

\* render(): the camera with-block is left, the binding unmaps and commits
\* the slot the copy writes
StreamCameraUnmap ==
  /\ backend = "stream" /\ cuda.host = "camera_unmap"
  /\ ExternalCall("object_stage", {StreamOp("camera_copy", 0)})
  /\ StreamStays

\* _update_object_transforms(): the binding test, get_state_0, the map
StreamObjectMap ==
  /\ backend = "stream" /\ cuda.host = "object_stage"
  /\ IF cuda.object_binding
     THEN ExternalCall("object_sync", {})
     ELSE cuda' = [cuda EXCEPT !.host = "step"]
  /\ StreamStays

\* _update_object_transforms(): the launch of _sync_newton_transforms_kernel
StreamLaunchSync ==
  /\ backend = "stream" /\ cuda.host = "object_sync"
  /\ Enqueue("object_unmap", StreamOp("sync_kernel", 0))
  /\ StreamStays

\* _update_object_transforms(): the with-block is left, the binding unmaps
\* and commits the slot the kernel writes
StreamObjectUnmap ==
  /\ backend = "stream" /\ cuda.host = "object_unmap"
  /\ ExternalCall("step", {StreamOp("sync_kernel", 0)})
  /\ StreamStays

\* render(): self._renderer.step(...), which renders from both slots
StreamStep ==
  /\ backend = "stream" /\ cuda.host = "step"
  /\ ExternalCall("frame_map", {StreamOp("camera_copy", 0), StreamOp("sync_kernel", 0)})
  /\ StreamStays

\* render(): the LdrColor map and _save_tiled_image_to_disk (.cpu())
StreamFrameMap ==
  /\ backend = "stream" /\ cuda.host = "frame_map"
  /\ ExternalCall("extract", {})
  /\ StreamStays

\* render(): the launch of _extract_tile_from_tiled_buffer_kernel for env_idx
StreamLaunchExtract ==
  /\ backend = "stream" /\ cuda.host = "extract"
  /\ Enqueue("save_image", StreamOp("extract_kernel", cuda.env_idx))
  /\ StreamStays

\* render(): _save_image_to_disk(...) (.cpu()), then the next env_idx
StreamSaveImage ==
  /\ backend = "stream" /\ cuda.host = "save_image"
  /\ \E joins \in BOOLEAN :
       LET next == IF cuda.env_idx + 1 < NumEnvs THEN "extract" ELSE "frame_unmap"
       IN  cuda' = IF joins
                   THEN [cuda EXCEPT !.host = next, !.env_idx = @ + 1,
                                     !.completed = @ \cup Queued, !.queue = <<>>]
                   ELSE [cuda EXCEPT !.host = next, !.env_idx = @ + 1]
  /\ StreamStays

\* render(): the LdrColor with-block is left, the mapping the extraction
\* kernels read from is released; render() returns
StreamFrameUnmap ==
  /\ backend = "stream" /\ cuda.host = "frame_unmap"
  /\ ExternalCall("returned", ExtractOps)
  /\ StreamStays

\* The device completes the operation at the head of the stream; the copy
\* reads what the transform kernel wrote
StreamComplete ==
  /\ backend = "stream" /\ cuda.queue # <<>>
  /\ LET op == Head(cuda.queue)
         reads == IF op = StreamOp("camera_copy", 0)
                  THEN {StreamOp("transform_kernel", 0)} ELSE {}
     IN  cuda' = [cuda EXCEPT !.queue = Tail(@),
                              !.completed = @ \cup {op},
                              !.early = @ \cup (reads \ cuda.completed)]
  /\ StreamStays

(* ---------------------------- specification ---------------------------- *)
Next ==
  \/ Render
  \/ CameraMap
  \/ CameraWrite
  \/ CameraExit
  \/ ObjectSync
  \/ ObjectWrite
  \/ ObjectExit
  \/ StepInvoke
  \/ StepReturn
  \/ FrameMap
  \/ ExtractTile
  \/ FrameExit
  \/ \E has_scene \in BOOLEAN : Initialize(has_scene)
  \/ AddUsdScene
  \/ Reset
  \/ Step
  \/ Close
  \/ GetOutput

Spec == Init /\ [][Next]_vars

\* The OVRTX renderer with an external renderer that may round the resolution
\* of the render product: the same initial state but for the size it produces
AtlasInit ==
  /\ atlasSize \in AtlasSizes
  /\ backend = "ovrtx"
  /\ renderer = 0 /\ usd_handles = <<>> /\ camera_binding = 0 /\ object_binding = 0
  /\ object_newton_indices = <<>> /\ render_product_paths = <<>>
  /\ initialized_scene = FALSE /\ frame_counter = 0
  /\ output_rgba = <<>> /\ output_depth = <<>> /\ pc = "idle"
  /\ camera_transforms = <<>> /\ exc = FALSE /\ env_idx = 0 /\ newton_state = 0
  /\ tiled_data = <<>> /\ camSlot = <<>> /\ objSlot = <<>>
  /\ openMaps = [cam |-> 0, obj |-> 0, frame |-> 0]
  /\ nextRid = 0 /\ nextHandle = 0
  /\ log = <<>> /\ lastOp = "init" /\ lastResult = "ok"
  /\ atCall = NoCall /\ prev = NoPrev
  /\ output_data_buffers = NoBuffers
  /\ model = 0 /\ tiled_camera_sensor = 0 /\ camera_rays = <<>>
  /\ raw_output_rgb_buffer = <<>> /\ raw_output_depth_buffer = <<>>
  /\ k_num_envs = NumEnvs /\ k_images = <<>> /\ k_atlas = <<>> /\ k_output = <<>>
  /\ k_addr = <<>> /\ k_op = "none"
  /\ f_op = "none" /\ f_args = <<>> /\ f_value = <<>>
  /\ cuda = NoStream

AtlasSpec == AtlasInit /\ [][Next]_vars

\* The Newton backend: the same initial state with the other class constructed
NewtonInit ==
     /\ backend = "newton"
     /\ renderer = 0 /\ usd_handles = <<>> /\ camera_binding = 0 /\ object_binding = 0
     /\ object_newton_indices = <<>> /\ render_product_paths = <<>>
     /\ initialized_scene = FALSE /\ frame_counter = 0
     /\ output_rgba = <<>> /\ output_depth = <<>> /\ pc = "idle"
     /\ camera_transforms = <<>> /\ exc = FALSE /\ env_idx = 0 /\ newton_state = 0
     /\ tiled_data = <<>> /\ camSlot = <<>> /\ objSlot = <<>>
     /\ openMaps = [cam |-> 0, obj |-> 0, frame |-> 0]
     /\ nextRid = 0 /\ nextHandle = 0
     /\ log = <<>> /\ lastOp = "init" /\ lastResult = "ok"
     /\ atCall = NoCall /\ prev = NoPrev
     /\ output_data_buffers = NoBuffers
     /\ model = 0 /\ tiled_camera_sensor = 0 /\ camera_rays = <<>>
     /\ raw_output_rgb_buffer = <<>> /\ raw_output_depth_buffer = <<>>
     /\ k_num_envs = NumEnvs /\ k_images = <<>> /\ k_atlas = <<>> /\ k_output = <<>>
     /\ k_addr = <<>> /\ k_op = "none"
     /\ atlasSize = ExactAtlas /\ f_op = "none" /\ f_args = <<>> /\ f_value = <<>>
  /\ cuda = NoStream

NewtonNext ==
  \/ NewtonInitialize
  \/ \E intrinsic \in Intrinsics : NewtonRender(intrinsic)
  \/ NewtonStep
  \/ NewtonReset
  \/ NewtonClose
  \/ GetOutput

NewtonSpec == NewtonInit /\ [][NewtonNext]_vars

\* The kernel bench: the inputs are drawn at the start
KernelInit ==
  /\ backend = "kernels"
  /\ renderer = 0 /\ usd_handles = <<>> /\ camera_binding = 0 /\ object_binding = 0
  /\ object_newton_indices = <<>> /\ render_product_paths = <<>>
  /\ initialized_scene = FALSE /\ frame_counter = 0
  /\ output_rgba = <<>> /\ output_depth = <<>> /\ pc = "idle"
  /\ camera_transforms = <<>> /\ exc = FALSE /\ env_idx = 0 /\ newton_state = 0
  /\ tiled_data = <<>> /\ camSlot = <<>> /\ objSlot = <<>>
  /\ openMaps = [cam |-> 0, obj |-> 0, frame |-> 0]
  /\ nextRid = 0 /\ nextHandle = 0
  /\ log = <<>> /\ lastOp = "init" /\ lastResult = "ok"
  /\ atCall = NoCall /\ prev = NoPrev
  /\ output_data_buffers = NoBuffers
  /\ model = 0 /\ tiled_camera_sensor = 0 /\ camera_rays = <<>>
  /\ raw_output_rgb_buffer = <<>> /\ raw_output_depth_buffer = <<>>
  /\ k_num_envs \in 1 .. MaxKernelEnvs
  /\ \E palette \in 0 .. NumPalettes - 1 : k_images = SyntheticRaw(k_num_envs, palette)
  /\ k_atlas = <<>> /\ k_output = <<>> /\ k_addr = <<>> /\ k_op = "none"
  /\ atlasSize = ExactAtlas /\ f_op = "none" /\ f_args = <<>> /\ f_value = <<>>
  /\ cuda = NoStream

KernelNext ==
  \/ KernelAddress
  \/ KernelPack
  \/ KernelUnpack

KernelSpec == KernelInit /\ [][KernelNext]_vars

\* The function bench: nothing is constructed, one function is applied
FunctionInit ==
  /\ backend = "functions"
  /\ atlasSize = ExactAtlas
  /\ renderer = 0 /\ usd_handles = <<>> /\ camera_binding = 0 /\ object_binding = 0
  /\ object_newton_indices = <<>> /\ render_product_paths = <<>>
  /\ initialized_scene = FALSE /\ frame_counter = 0
  /\ output_rgba = <<>> /\ output_depth = <<>> /\ pc = "idle"
  /\ camera_transforms = <<>> /\ exc = FALSE /\ env_idx = 0 /\ newton_state = 0
  /\ tiled_data = <<>> /\ camSlot = <<>> /\ objSlot = <<>>
  /\ openMaps = [cam |-> 0, obj |-> 0, frame |-> 0]
  /\ nextRid = 0 /\ nextHandle = 0
  /\ log = <<>> /\ lastOp = "init" /\ lastResult = "ok"
  /\ atCall = NoCall /\ prev = NoPrev
  /\ output_data_buffers = NoBuffers
  /\ model = 0 /\ tiled_camera_sensor = 0 /\ camera_rays = <<>>
  /\ raw_output_rgb_buffer = <<>> /\ raw_output_depth_buffer = <<>>
  /\ k_num_envs = NumEnvs /\ k_images = <<>> /\ k_atlas = <<>> /\ k_output = <<>>
  /\ k_addr = <<>> /\ k_op = "none"
  /\ f_op = "none" /\ f_args = <<>> /\ f_value = <<>>
  /\ cuda = NoStream

FunctionNext ==
  \/ BuildBodyIndexTable
  \/ BuildCameraTransform
  \/ BuildTileGrid
  \/ UnpackPixel
  \/ BuildTransformArrays

FunctionSpec == FunctionInit /\ [][FunctionNext]_vars

\* A bound renderer at the start of the render() call of frame f
StreamInit ==
  /\ backend = "stream"
  /\ atlasSize = ExactAtlas
  /\ renderer = 0 /\ usd_handles = <<>> /\ camera_binding = 0 /\ object_binding = 0
  /\ object_newton_indices = <<>> /\ render_product_paths = <<>>
  /\ initialized_scene = FALSE /\ frame_counter = 0
  /\ output_rgba = <<>> /\ output_depth = <<>> /\ pc = "idle"
  /\ camera_transforms = <<>> /\ exc = FALSE /\ env_idx = 0 /\ newton_state = 0
  /\ tiled_data = <<>> /\ camSlot = <<>> /\ objSlot = <<>>
  /\ openMaps = [cam |-> 0, obj |-> 0, frame |-> 0]
  /\ nextRid = 0 /\ nextHandle = 0
  /\ log = <<>> /\ lastOp = "init" /\ lastResult = "ok"
  /\ atCall = NoCall /\ prev = NoPrev
  /\ output_data_buffers = NoBuffers
  /\ model = 0 /\ tiled_camera_sensor = 0 /\ camera_rays = <<>>
  /\ raw_output_rgb_buffer = <<>> /\ raw_output_depth_buffer = <<>>
  /\ k_num_envs = NumEnvs /\ k_images = <<>> /\ k_atlas = <<>> /\ k_output = <<>>
  /\ k_addr = <<>> /\ k_op = "none"
  /\ f_op = "none" /\ f_args = <<>> /\ f_value = <<>>
  /\ \E c \in BOOLEAN, o \in BOOLEAN, f \in 1 .. MaxFrames :
       cuda = [NoStream EXCEPT !.host = "start", !.camera_binding = c,
                               !.object_binding = o, !.frame = f]

StreamNext ==
  \/ StreamLaunchCameraTransforms
  \/ StreamCameraMap
  \/ StreamCameraDebug
  \/ StreamCameraCopy
  \/ StreamCameraUnmap
  \/ StreamObjectMap
  \/ StreamLaunchSync
  \/ StreamObjectUnmap
  \/ StreamStep
  \/ StreamFrameMap
  \/ StreamLaunchExtract
  \/ StreamSaveImage
  \/ StreamFrameUnmap
  \/ StreamComplete

StreamSpec == StreamInit /\ [][StreamNext]_vars

\* Either backend: the class is chosen at construction
BackendsSpec == (Init \/ NewtonInit) /\ [][Next \/ NewtonNext]_vars

(* ------------------------------- claims -------------------------------- *)
AfterRender == lastOp = "render" /\ pc = "idle"
NoBindingMapOpen == openMaps.cam = 0 /\ openMaps.obj = 0

\* The tile of environment e in an atlas, by the addressing of the TileGrid
\* data model: tile_x = e % tiles_per_side, tile_y = e / tiles_per_side
TileOfEnv(atlas, e) ==
  [y \in 0 .. TileHeight - 1 |->
     [x \in 0 .. TileWidth - 1 |->
        atlas[(e \div num_tiles_per_side) * TileHeight + y]
             [(e % num_tiles_per_side) * TileWidth + x]]]
\* Every environment's tile of the image rendered in frame f
TilesOfFrame(f) == [e \in Envs |-> TileOfEnv(RenderedAtlas(f), e)]

\* The transforms the caller's poses of frame f stand for: rotation transposed,
\* translation in the last row
PosesOfFrame(f) ==
  [e \in Envs |-> LET pose == CameraPoses(f)[e]
                  IN  Transpose44(TransformToMatrix(pose.p, pose.q))]

CameraStageFailed == Has("cam_map_raise") \/ Has("cam_debug_raise") \/ Has("cam_copy_raise")
ObjectStageFailed == Has("obj_import_raise") \/ Has("obj_map_raise") \/ Has("obj_write_raise")
\* The step returned the colour frame and every later stage ran to its end
UnpackCompleted == Has("step_frame") /\ Has("frame_unmap") /\ ~Has("extract_raise")

C2_LastGoodFrame ==
  /\ (AfterRender /\ Has("step_raise")) =>
        (lastResult = "ok" /\ output_rgba = atCall.rgba /\ output_depth = atCall.depth)
  /\ (AfterRender /\ prev.step_raised /\ UnpackCompleted) =>
        (lastResult = "ok" /\ output_rgba = TilesOfFrame(frame_counter))

\* the call after a failed step has returned with new tiles in the buffers
C2_Witness ==
  /\ AfterRender /\ prev.step_raised /\ UnpackCompleted
  /\ lastResult = "ok"
  /\ output_rgba # atCall.rgba

\* C3: after any render() call the rgba buffers hold this frame's tiles for all
\* environments or the previous content for all environments.
C3_NeverPartiallyOverwritten ==
  AfterRender => (output_rgba = atCall.rgba \/ output_rgba = TilesOfFrame(frame_counter))

\* C4: when renderer.step is invoked, the camera slot holds the transforms of
\* this call's poses (if the camera binding exists), the object slot holds the
\* transforms of the current physics state (if the object sync ran), and both
\* writes were committed: written, then unmapped, then the step.
C4_CommitBeforeStep ==
  pc = "stepping" =>
     /\ NoBindingMapOpen
     /\ camera_binding # 0 =>
          /\ Has("cam_write")
          /\ Pos("cam_write") < Pos("cam_unmap") /\ Pos("cam_unmap") < Pos("step")
          /\ camSlot = PosesOfFrame(frame_counter)
     /\ Has("obj_map") /\ ~Has("obj_write_raise") =>
          /\ Has("obj_write")
          /\ Pos("obj_write") < Pos("obj_unmap") /\ Pos("obj_unmap") < Pos("step")
          /\ \A i \in 1 .. Len(object_newton_indices) :
               LET body == BodyQ(frame_counter)[object_newton_indices[i]]
               IN  objSlot[i] = Transpose44(TransformToMatrix(body.p, body.q))

\* the step of a second frame is invoked after both slots were written
C4_Witness ==
  /\ pc = "stepping" /\ frame_counter = 2
  /\ Has("cam_write") /\ Has("obj_write")

\* C5: at most one mapping of a BindingSlot is open at a time, and while one is
\* open there is no renderer step and no scene mutation (add / remove scene).
C5_MapScopeExclusive ==
  /\ openMaps.cam <= 1 /\ openMaps.obj <= 1
  /\ openMaps.cam + openMaps.obj <= 1
  /\ pc \in {"stepping", "frame_map", "extract", "frame_exit"} => NoBindingMapOpen
  /\ lastOp \in {"initialize", "add_usd_scene", "close", "reset"} => NoBindingMapOpen
  /\ ~NoBindingMapOpen => pc \in {"camera_write", "camera_exit", "object_write", "object_exit"}

\* the object slot is mapped after the camera slot's mapping was released
C5_Witness ==
  /\ openMaps.obj = 1 /\ openMaps.cam = 0
  /\ Has("cam_unmap") /\ pc = "object_write"

\* C6: no BindingSlot mapping opened by render() is still open when render()
\* returns or raises, also when the writer raised inside the scope.
C6_MapReleasedOnExit ==
  /\ pc = "idle" => NoBindingMapOpen
  /\ (AfterRender /\ (Has("cam_copy_raise") \/ Has("cam_debug_raise"))) => Has("cam_unmap")
  /\ (AfterRender /\ Has("obj_write_raise")) => Has("obj_unmap")
  /\ (AfterRender /\ Has("cam_map")) => Has("cam_unmap")
  /\ (AfterRender /\ Has("obj_map")) => Has("obj_unmap")

\* render() raised because the copy into the camera slot raised; the slot is unmapped
C6_Witness ==
  /\ AfterRender /\ lastResult = "Exception"
  /\ Has("cam_copy_raise") /\ Has("cam_unmap") /\ NoBindingMapOpen

\* C7: a failure of the camera-binding stage (map or write raises) stays in
\* that stage: render() returns normally and the object sync and the renderer
\* step of the frame are still attempted.
C7_CameraFailureIsolated ==
  (AfterRender /\ CameraStageFailed) =>
     (lastResult = "ok" /\ Has("obj_sync") /\ Has("step"))

\* C8: a failure of the object-sync stage (import, map or kernel raises) stays
\* in that stage: render() returns normally, the renderer step is invoked, and
\* a returned frame is unpacked into the buffers.
C8_ObjectFailureIsolated ==
  /\ (lastOp = "render" /\ ObjectStageFailed) => lastResult # "Exception"
  /\ (AfterRender /\ ObjectStageFailed) =>
        /\ lastResult = "ok"
        /\ Has("step")
        /\ UnpackCompleted => output_rgba = TilesOfFrame(frame_counter)

\* the sync kernel raised, and the frame was still stepped and unpacked
C8_Witness ==
  /\ AfterRender /\ Has("obj_write_raise") /\ UnpackCompleted
  /\ output_rgba = TilesOfFrame(frame_counter) /\ output_rgba # atCall.rgba

\* C9: with no current physics state the object sync of the frame is a no-op
\* (no map, no write, nothing raised) and the step still runs; in the next
\* frame, when the state is there again, the sync is performed.
C9_StaleStateSkip ==
  /\ (lastOp = "render" /\ Has("obj_no_state")) =>
        /\ ~Has("obj_map") /\ ~Has("obj_write") /\ ~Has("report_obj")
        /\ lastResult # "Exception"
        /\ pc = "idle" => Has("step")
  /\ (lastOp = "render" /\ prev.no_state /\ Has("obj_sync") /\ ~ObjectBindingMissing
        /\ ~Has("obj_no_state") /\ ~Has("obj_import_raise") /\ ~Has("obj_map_raise")) =>
        Has("obj_map")

\* the frame right after a skipped sync wrote the object slot
C9_Witness ==
  /\ AfterRender /\ prev.no_state
  /\ Has("obj_write") /\ Has("obj_unmap") /\ Has("step")

\* C10: with no camera binding (bind_attribute returned None) every render()
\* skips the camera write without mapping and without raising, and still runs
\* the object sync and the step; with no object binding the object sync maps
\* and writes nothing in every frame.
C10_MissingBindingSkipped ==
  /\ (lastOp = "render" /\ initialized_scene /\ camera_binding = 0) =>
        /\ ~Has("cam_map") /\ ~Has("cam_map_raise") /\ ~Has("cam_write")
        /\ lastResult # "Exception"
        /\ pc = "idle" => (lastResult = "ok" /\ Has("obj_sync") /\ Has("step"))
  /\ (lastOp = "render" /\ initialized_scene /\ object_binding = 0) =>
        /\ ~Has("obj_map") /\ ~Has("obj_map_raise") /\ ~Has("obj_write")
        /\ ~ObjectStageFailed

\* a second frame without camera binding: no camera map, object slot written, stepped
C10_Witness ==
  /\ AfterRender /\ initialized_scene /\ camera_binding = 0 /\ frame_counter = 2
  /\ ~Has("cam_map") /\ Has("obj_write") /\ Has("step")

\* C11: every occurrence of a recoverable per-frame failure is reported in its
\* frame: in every frame, not only the first, an object-sync failure produces
\* a report and a renderer-step failure produces a report.
C11_FailureReportedEveryFrame ==
  AfterRender =>
     /\ ObjectStageFailed => Has("report_obj")
     /\ Has("step_raise") => Has("report_step")

\* A scene is bound: under OVRTX the scene-bound flag, under Newton the sensor
\* built by initialize()
SceneBound == IF backend = "ovrtx" THEN initialized_scene ELSE tiled_camera_sensor # 0
\* This step is the entry of a render() call
RenderCalled == pc = "idle" /\ lastOp' = "render"

\* C12: the frame counter is monotonic: every render() call made while a scene
\* is bound increases it by exactly 1, also when the renderer step then fails,
\* and no step of any other operation (initialize, add_usd_scene, reset, step,
\* close, get_output) and no later step of render() changes it.
C12_FrameCounterMonotonic ==
  [][ /\ frame_counter' >= frame_counter
      /\ (RenderCalled /\ SceneBound) => frame_counter' = frame_counter + 1
      /\ ~RenderCalled => frame_counter' = frame_counter
      /\ (lastOp' = "render" /\ pc' = "idle" /\ SceneBound') =>
            frame_counter' = atCall'.frame + 1 ]_vars

\* a second render() whose renderer step raised has returned, counted
C12_Witness ==
  /\ AfterRender /\ Has("step_raise") /\ lastResult = "ok"
  /\ frame_counter = 2 /\ atCall.frame = 1

\* The Closed state: no external renderer is held and no scene is bound
Closed ==
  /\ renderer = 0 /\ tiled_camera_sensor = 0
  /\ ~initialized_scene /\ usd_handles = <<>> /\ camera_binding = 0

\* C13: close() is idempotent: from any reachable state, close() does not raise
\* and leaves the orchestrator Closed (no renderer, no scene bound); a close()
\* right after a close() performs no unbind and no scene removal.
C13_CloseIdempotent ==
  [][ (pc = "idle" /\ lastOp' = "close") =>
         /\ lastResult' = "ok"
         /\ Closed'
         /\ lastOp = "close" => log' = <<>> ]_vars

\* C14: after close() the camera binding, the object binding and the
\* BodyIndexTable are torn down (no longer held), and a binding that render()
\* maps was created by the renderer now in use, never before a close().
C14_BindingsTornDownOnClose ==
  /\ lastOp = "close" =>
        (camera_binding = 0 /\ object_binding = 0 /\ object_newton_indices = <<>>)
  /\ (lastOp = "render" /\ Has("cam_map")) => camera_binding = renderer
  /\ (lastOp = "render" /\ Has("obj_map")) => object_binding = renderer

\* How many remove_usd calls a log holds, raising ones included
RemoveCount(l) ==
  Cardinality({i \in 1 .. Len(l) : l[i] \in {"remove_usd", "remove_usd_raise"}})

\* C15: close() calls remove_usd once for every scene handle held (those
\* added by initialize(scene) and add_usd_scene()), leaves the handle list
\* empty and the renderer released, and returns normally; this also when the
\* camera unbind or the removal of a handle raises.
C15_CloseRemovesEveryHandle ==
  [][ (pc = "idle" /\ lastOp' = "close") =>
         /\ lastResult' = "ok"
         /\ usd_handles' = <<>>
         /\ renderer' = 0
         /\ RemoveCount(log') = Len(usd_handles) ]_vars

\* close() went on after the camera unbind and the first removal raised
C15_Witness ==
  /\ lastOp = "close" /\ lastResult = "ok"
  /\ log = <<"unbind_camera_raise", "remove_usd_raise", "remove_usd">>
  /\ renderer = 0 /\ usd_handles = <<>> /\ nextHandle = 2

\* C16: reset() leaves the camera binding, the object binding, the
\* BodyIndexTable, the scene handles, the render-product paths, the scene-bound
\* flag, the frame counter and the OutputBuffers unchanged (so render() is
\* permitted after it exactly when it was before); with no renderer it calls
\* nothing and does not raise, with a renderer it makes the one reset call.
C16_ResetKeepsBindings ==
  [][ (pc = "idle" /\ lastOp' = "reset") =>
         /\ UNCHANGED <<renderer, camera_binding, object_binding, object_newton_indices,
                        usd_handles, render_product_paths, initialized_scene,
                        frame_counter, output_rgba, output_depth, output_data_buffers>>
         /\ SceneGuardFails' = SceneGuardFails
         /\ renderer = 0 => (log' = <<>> /\ lastResult' = "ok")
         /\ renderer # 0 => log' = <<"renderer_reset">> ]_vars

\* reset() was called on a scene-bound renderer that has rendered, with both bindings
C16_Witness ==
  /\ lastOp = "reset" /\ lastResult = "ok" /\ log = <<"renderer_reset">>
  /\ initialized_scene /\ camera_binding # 0 /\ object_binding # 0
  /\ frame_counter > 0 /\ output_rgba = TilesOfFrame(frame_counter)

\* C17: render() never rebinds a data type to a different buffer: the arrays
\* get_output() gave before a render() call are the arrays that hold the
\* result after it, under both backends.
C17_BuffersNeverRebound ==
  (lastOp = "render" /\ pc = "idle") => output_data_buffers = atCall.buffers

\* What a read of array a gives at environment e, pixel (y, x), when the
\* memory of the rgba array holds rgba_memory: the channels a shows of it
ReadPixel(a, rgba_array, rgba_memory, e, y, x) ==
  IF a.base = rgba_array.base
  THEN SubSeq(rgba_memory[e][y][x], 1, a.channels)
  ELSE <<>>

\* C18: in every state of either backend in which rgba is bound, rgb is a
\* view over the first 3 channels of the current rgba array: a read of rgb at
\* any environment and pixel gives channels 0..2 of what rgba holds there.
C18_RgbViewsRgba ==
  output_data_buffers.rgba # NoArray =>
     /\ output_data_buffers.rgb = FirstThreeChannels(output_data_buffers.rgba)
     /\ \A e \in Envs, y \in 0 .. TileHeight - 1, x \in 0 .. TileWidth - 1 :
          ReadPixel(output_data_buffers.rgb, output_data_buffers.rgba, output_rgba, e, y, x)
            = SubSeq(output_rgba[e][y][x], 1, 3)

\* the Newton backend has rendered a second frame and rgb reads its colours
C18_Witness ==
  /\ backend = "newton" /\ lastOp = "render" /\ lastResult = "ok" /\ frame_counter = 2
  /\ output_data_buffers.rgba = [base |-> <<"raw_rgb", tiled_camera_sensor>>, channels |-> 4]
  /\ ReadPixel(output_data_buffers.rgb, output_data_buffers.rgba, output_rgba, 1, 0, 1)
       = <<2, 1, 1>>

\* C19: for every number of environments N, env_id in [0, N) and local pixel
\* (x, y) of a tile, the forward addressing of unpack followed by the inverse
\* addressing of pack gives back (env_id, x, y), and the atlas pixel lies
\* inside the tiles_per_side*width by tiles_per_side*height atlas.
C19_AddressRoundTrip ==
  k_op = "address" =>
     /\ k_addr.camera_id = k_addr.env
     /\ k_addr.pixel_x = k_addr.x
     /\ k_addr.pixel_y = k_addr.y
     /\ k_addr.src_x \in 0 .. CeilSqrt(k_num_envs) * TileWidth - 1
     /\ k_addr.src_y \in 0 .. CeilSqrt(k_num_envs) * TileHeight - 1

\* the last pixel of environment 4 of 5, in the middle tile of a 3 x 3 atlas
C19_Witness ==
  /\ k_op = "address" /\ k_num_envs = 5 /\ k_addr.env = 4
  /\ k_addr.x = TileWidth - 1 /\ k_addr.y = TileHeight - 1
  /\ k_addr.src_x = 2 * TileWidth - 1 /\ k_addr.src_y = 2 * TileHeight - 1
  /\ k_addr.camera_id = 4

\* Channel k (0 = lowest byte) of a packed 32-bit colour
ChannelOf(packed, k) == (packed \div (256 ^ k)) % 256
\* The image of environment e that was given to pack, as (height, width, 4) bytes
OriginalImage(e) ==
  [y \in 0 .. TileHeight - 1 |->
     [x \in 0 .. TileWidth - 1 |->
        [k \in 1 .. 4 |-> ChannelOf(k_images[e][y * TileWidth + x], k - 1)]]]

\* C20: packing the per-environment images into the atlas and unpacking the
\* atlas into per-environment buffers gives back every environment's image
\* exactly, for every number of environments (1, 2, 4, 5 and 9 among them),
\* whatever pack left in the padding tiles.
C20_PackUnpackRoundTrip ==
  k_op = "unpack" =>
     /\ DOMAIN k_output = 0 .. k_num_envs - 1
     /\ \A e \in 0 .. k_num_envs - 1 : k_output[e] = OriginalImage(e)

\* 5 constant-colour environments in a 3 x 3 atlas whose padding tiles hold
\* garbage: environment 4 came back with its colour
C20_Witness ==
  /\ k_op = "unpack" /\ k_num_envs = 5
  /\ k_atlas[2 * TileHeight][0] = <<255, 255, 255, 255>>
  /\ \A y \in 0 .. TileHeight - 1, x \in 0 .. TileWidth - 1 :
       k_output[4][y][x] = <<4, 0, 4, 127>>

\* C21: when the atlas the renderer returns has not the dimensions
\* tiles_per_side*width by tiles_per_side*height, unpack fails with a fatal
\* error that leaves render(): the call does not return normally, and no tile
\* is extracted from the atlas (no read outside it, no wrap).
C21_AtlasMismatchIsFatal ==
  (AfterRender /\ Has("frame_map") /\ atlasSize # ExactAtlas) =>
     /\ lastResult \in {"RuntimeError", "Exception"}
     /\ ~Has("extract")

\* The body at 0-based index b of a body list is one the table must hold: its
\* path lies under the environment namespace and holds no camera marker and
\* no ground marker
TableMember(paths, b) ==
  /\ Contains(paths[b + 1], "/World/envs/")
  /\ ~Contains(paths[b + 1], "Camera")
  /\ ~Contains(paths[b + 1], "GroundPlane")

BodyTransform(s, b) == Transpose44(TransformToMatrix(BodyQ(s)[b].p, BodyQ(s)[b].q))

\* C23: when the object sync has run in a render() call, row i of the object
\* slot holds the transform of body table[i] of the current physics state for
\* every table entry, the slot holds len(table) rows, and no row holds the
\* transform of a body that is not in the table.
C23_ObjectSyncWritesTable ==
  (lastOp = "render" /\ Has("obj_write")) =>
     /\ Len(objSlot) = Len(object_newton_indices)
     /\ \A i \in 1 .. Len(object_newton_indices) :
          objSlot[i] = BodyTransform(frame_counter, object_newton_indices[i])
     /\ \A b \in 0 .. Len(BodyKeys) - 1 :
          (\A i \in 1 .. Len(object_newton_indices) : object_newton_indices[i] # b) =>
             \A i \in 1 .. Len(objSlot) : objSlot[i] # BodyTransform(frame_counter, b)

\* the sync of the second frame wrote body 3 of that frame's state to row 1
C23_Witness ==
  /\ AfterRender /\ Has("obj_write") /\ frame_counter = 2
  /\ object_newton_indices = <<0, 3>>
  /\ objSlot[2][4] = <<2, 3, 0, 1>>

\* The 3x3 rotation block of a 4x4 transform
RotationBlock(m) == [r \in 1 .. 3 |-> [c \in 1 .. 3 |-> m[r][c]]]
Diagonal3(a, b, c) == << <<a, 0, 0>>, <<0, b, 0>>, <<0, 0, c>> >>

\* C24: for the identity orientation (0,0,0,1) and any position p the
\* transform built has translation p and the identity as rotation block, in
\* the matrix layout of the OVRTX backend (rotation transposed, translation in
\* the last row) and in the other backend's transform.
C24_IdentityOrientation ==
  (f_op = "camera_transform" /\ f_args.q = <<0, 0, 0, 1>>) =>
     /\ RotationBlock(f_value.ovrtx) = Diagonal3(1, 1, 1)
     /\ f_value.ovrtx[4] = <<f_args.p[1], f_args.p[2], f_args.p[3], 1>>
     /\ \A r \in 1 .. 3 : f_value.ovrtx[r][4] = 0
     /\ f_value.newton.p = f_args.p
     /\ RotationBlock(TransformToMatrix(f_value.newton.p, f_value.newton.q))
          = Diagonal3(1, 1, 1)
     /\ \A r \in 1 .. 3 :
          TransformToMatrix(f_value.newton.p, f_value.newton.q)[r][4] = f_args.p[r]

\* the transform of position (1, -1, 0) with the identity orientation was built
C24_Witness ==
  /\ f_op = "camera_transform"
  /\ f_args = [p |-> <<1, -1, 0>>, q |-> <<0, 0, 0, 1>>]
  /\ f_value.ovrtx[4] = <<1, -1, 0, 1>>
  /\ f_value.ovrtx[2] = <<0, 1, 0, 0>>

\* C25: the quaternion (x,y,z,w) = (0,0,1,0), a half turn about z, gives the
\* rotation block diag(-1,-1,1) with every off-diagonal term 0, the components
\* being read in (x,y,z,w) order; likewise diag(1,-1,-1) for the half turn
\* about x and diag(-1,1,-1) for the half turn about y.
C25_HalfTurnRotation ==
  f_op = "camera_transform" =>
     /\ f_args.q = <<0, 0, 1, 0>> =>
          /\ RotationBlock(f_value.ovrtx) = Diagonal3(-1, -1, 1)
          /\ f_value.newton.q[3] = 1 /\ f_value.newton.q[4] = 0
          /\ RotationBlock(TransformToMatrix(f_value.newton.p, f_value.newton.q))
               = Diagonal3(-1, -1, 1)
     /\ f_args.q = <<1, 0, 0, 0>> => RotationBlock(f_value.ovrtx) = Diagonal3(1, -1, -1)
     /\ f_args.q = <<0, 1, 0, 0>> => RotationBlock(f_value.ovrtx) = Diagonal3(-1, 1, -1)

\* the transform of a camera turned half about z was built
C25_Witness ==
  /\ f_op = "camera_transform" /\ f_args.q = <<0, 0, 1, 0>> /\ f_args.p = <<1, 1, 1>>
  /\ f_value.ovrtx[1] = <<-1, 0, 0, 0>> /\ f_value.ovrtx[2] = <<0, -1, 0, 0>>
  /\ f_value.ovrtx[3] = <<0, 0, 1, 0>> /\ f_value.ovrtx[4] = <<1, 1, 1, 1>>

\* C26: for every number of environments N >= 1 the tiles per side t computed
\* is ceil(sqrt(N)): the least t with t*t >= N, so t*t >= N and (t-1)*(t-1) < N;
\* both backends compute the same t, and the atlas is t*width by t*height.
C26_TilesPerSide ==
  f_op = "tile_grid" =>
     LET t == f_value.ovrtx.num_tiles_per_side
     IN  /\ t >= 1
         /\ t * t >= f_args
         /\ (t - 1) * (t - 1) < f_args
         /\ \A j \in 1 .. f_args : j * j >= f_args => t <= j
         /\ f_value.newton.num_tiles_per_side = t
         /\ f_value.ovrtx.tiled_width = t * TileWidth
         /\ f_value.ovrtx.tiled_height = t * TileHeight
         /\ f_value.newton.tiled_width = t * TileWidth
         /\ f_value.newton.tiled_height = t * TileHeight

\* 17 environments: 5 tiles per side, one more than the 4 that hold 16
C26_Witness ==
  /\ f_op = "tile_grid" /\ f_args = 17
  /\ f_value.ovrtx.num_tiles_per_side = 5 /\ f_value.newton.num_tiles_per_side = 5
  /\ f_value.ovrtx.tiled_width = 5 * TileWidth

\* initialize() was just called without a scene path and returned
InitializedWithoutScene == lastOp = "initialize" /\ lastResult = "ok" /\ log = <<>>

\* C27: after initialize() without a usd_scene_path, render() does not raise,
\* neither right after it nor after an add_usd_scene() in between, and
\* get_output(), step() and close() return without raising.
C27_RenderAfterPlainInitialize ==
  [][ /\ (InitializedWithoutScene /\ lastOp' = "render") => lastResult' # "RuntimeError"
      /\ (pc = "idle" /\ lastOp = "add_usd_scene" /\ lastResult = "ok" /\ lastOp' = "render") =>
            lastResult' # "RuntimeError"
      /\ (pc = "idle" /\ lastOp' \in {"get_output", "step", "close"}) => lastResult' = "ok" ]_vars

\* C28: after initialize(usd_scene_path) has returned the scene is bound; every
\* render() on a bound scene passes the guard, leaves the scene bound, and
\* returns normally when no call on the camera binding raised, also the second
\* of two consecutive ones; close() returns normally.
C28_SceneBoundRenders ==
  /\ (lastOp = "initialize" /\ lastResult = "ok" /\ log # <<>>) => initialized_scene
  /\ lastOp = "render" => (initialized_scene <=> lastResult # "RuntimeError")
  /\ (AfterRender /\ initialized_scene /\ ~CameraStageFailed) => lastResult = "ok"
  /\ lastOp = "close" => lastResult = "ok"

\* close() returned after two rendered frames on a scene bound by initialize(path)
C28_Witness ==
  /\ lastOp = "close" /\ lastResult = "ok" /\ Has("unbind_camera") /\ Has("remove_usd")
  /\ frame_counter = 2 /\ output_rgba = TilesOfFrame(2)

\* C29: both backends give render() the same failure semantics: when the
\* external render call raises (renderer.step under OVRTX, the tiled sensor's
\* render under Newton), render() returns normally and the output buffers
\* hold what they held before the call.
C29_SameFailureSemantics ==
  (lastOp = "render" /\ pc = "idle" /\ (Has("step_raise") \/ Has("sensor_render_raise"))) =>
     /\ lastResult = "ok"
     /\ output_rgba = atCall.rgba
     /\ output_depth = atCall.depth

\* Position i of the log lies inside the scope opened by the event open and
\* closed by the event close
InScope(i, open, close) ==
  /\ Has(open) /\ i > Pos(open)
  /\ Has(close) => i < Pos(close)

\* C30: while the mapping of a binding slot is open, nothing but the write of
\* the transforms into the mapped view is done, in every frame, the first one
\* after scene binding included.
C30_MapScopeOnlyWrites ==
  lastOp = "render" =>
     \A i \in 1 .. Len(log) :
        /\ InScope(i, "cam_map", "cam_unmap") => log[i] \in {"cam_write", "cam_copy_raise"}
        /\ InScope(i, "obj_map", "obj_unmap") => log[i] \in {"obj_write", "obj_write_raise"}

\* C32: when initialize(usd_scene_path) raises part-way (the combined scene
\* does not load, or creating the camera binding raises) the renderer is not
\* left scene-bound: _initialized_scene is false, so that the next render()
\* raises the not-initialized error.
C32_FailedInitializeNotBound ==
  (pc = "idle" /\ lastOp = "initialize" /\ lastResult = "Exception")
    => ~initialized_scene

\* C35: for every number of environments N, every pixel of the full
\* tiles_per_side*height by tiles_per_side*width grid the pack kernel is
\* launched over has a source camera index tile_y*tiles_per_side + tile_x
\* below N: the launch reads no image of a non-existent environment (and
\* so cannot fault on one).
C35_PackReadsOnlyExistingCameras ==
  /\ k_op # "pack_fault"
  /\ k_op = "pack" =>
       \A y \in 0 .. CeilSqrt(k_num_envs) * TileHeight - 1,
          x \in 0 .. CeilSqrt(k_num_envs) * TileWidth - 1 :
            ConvertSource(x, y, TileWidth, TileHeight, CeilSqrt(k_num_envs)).camera_id
              < k_num_envs

\* The step returned normally without the colour frame of the render product
StepWithoutFrame == Has("step_no_product") \/ Has("step_no_frames") \/ Has("step_no_var")

\* C37: when the renderer step returns normally without the requested render
\* product, with no frame for it, or without the LdrColor render variable,
\* render() returns normally, has counted the frame, and every output buffer
\* holds what it held when render() was called.
C37_StepWithoutFrameKeepsOutput ==
  (AfterRender /\ StepWithoutFrame) =>
     /\ lastResult = "ok"
     /\ frame_counter = atCall.frame + 1
     /\ output_rgba = atCall.rgba
     /\ output_depth = atCall.depth
     /\ output_data_buffers = atCall.buffers

\* The second frame came without the LdrColor variable: the tiles of the
\* first frame are still in the colour buffer
C37_Witness ==
  /\ AfterRender /\ Has("step_no_var")
  /\ frame_counter = 2
  /\ output_rgba = TilesOfFrame(1)
  /\ output_rgba # ZerosRgba

\* C38: in the OVRTX renderer nothing writes the depth buffer after
\* _initialize_output() allocated it: whatever initialize, render, reset,
\* step, add_usd_scene and close calls were made, it holds its initial zeros.
C38_DepthStaysZero ==
  backend = "ovrtx" => (output_depth = <<>> \/ output_depth = ZerosDepth)

\* Two frames were rendered and extracted, the renderer was closed: colour
\* tiles of the second frame, depth still zero
C38_Witness ==
  /\ lastOp = "close" /\ pc = "idle"
  /\ frame_counter = 2
  /\ output_rgba = TilesOfFrame(2)
  /\ output_depth = ZerosDepth

\* What no add_usd_scene() call changes: the scene-bound flag, the bindings
\* and the render-product paths
AddUsdSceneKeeps ==
  UNCHANGED <<initialized_scene, camera_binding, object_binding, object_newton_indices,
              render_product_paths>>

\* C40 as stated: add_usd_scene() raises the not-initialized error when no
\* renderer exists and leaves the handle list as it was; whenever a renderer
\* exists it appends exactly one handle; it never changes the scene-bound
\* flag, the bindings or the render-product paths.
C40_AddUsdSceneAlwaysAppends ==
  [][AddUsdScene =>
       /\ renderer = 0 => (lastResult' = "RuntimeError" /\ usd_handles' = usd_handles)
       /\ renderer # 0 =>
            (Len(usd_handles') = Len(usd_handles) + 1
               /\ SubSeq(usd_handles', 1, Len(usd_handles)) = usd_handles)
       /\ AddUsdSceneKeeps]_vars

\* C40, amended: add_usd_scene() raises the not-initialized error when no
\* renderer exists and leaves the handle list as it was; when a renderer
\* exists and add_usd returns, it appends exactly one handle; when add_usd
\* raises, the exception leaves add_usd_scene() and the handle list is as it
\* was; it never changes the scene-bound flag, the bindings or the
\* render-product paths.
C40_AddUsdScene ==
  [][AddUsdScene =>
       /\ renderer = 0 => (lastResult' = "RuntimeError" /\ usd_handles' = usd_handles)
       /\ (renderer # 0 /\ lastResult' = "ok") =>
            (Len(usd_handles') = Len(usd_handles) + 1
               /\ SubSeq(usd_handles', 1, Len(usd_handles)) = usd_handles)
       /\ (renderer # 0 /\ lastResult' # "ok") =>
            (lastResult' = "Exception" /\ usd_handles' = usd_handles)
       /\ AddUsdSceneKeeps]_vars

\* A scene was added to a renderer initialized without one: one handle, the
\* renderer still not scene-bound
C40_Witness ==
  /\ lastOp = "add_usd_scene" /\ lastResult = "ok"
  /\ Len(usd_handles) = 1
  /\ ~initialized_scene /\ camera_binding = 0 /\ render_product_paths = <<>>

\* A render() call of the Newton renderer, with any intrinsics
NewtonRenderCall == \E intrinsic \in Intrinsics : NewtonRender(intrinsic)

C36_DecodeLowByteFirst ==
  f_op = "unpack_pixel" =>
     /\ f_value = f_args.bytes
     /\ \A k \in 1 .. 4 : f_value[k] \in 0 .. 255
     /\ f_args.packed_color =
          f_value[1] + 256 * f_value[2] + 65536 * f_value[3] + 16777216 * f_value[4]

\* The pixel 0x7F80FF01 decoded: channels 1, 255, 128, 127
C36_Witness ==
  /\ f_op = "unpack_pixel"
  /\ f_args.packed_color = 2139160321
  /\ f_value = <<1, 255, 128, 127>>

\* The Hamilton product of two quaternions (x, y, z, w)
QuatMul(a, b) ==
  << a[4] * b[1] + a[1] * b[4] + a[2] * b[3] - a[3] * b[2],
     a[4] * b[2] - a[1] * b[3] + a[2] * b[4] + a[3] * b[1],
     a[4] * b[3] + a[1] * b[2] - a[2] * b[1] + a[3] * b[4],
     a[4] * b[4] - a[1] * b[1] - a[2] * b[2] - a[3] * b[3] >>
QuatConj(a) == <<-a[1], -a[2], -a[3], a[4]>>
\* Column c of the standard rotation matrix of the unit quaternion q: the
\* basis vector e_c rotated, q e_c q*; for q over den a vector over den * den
RotatedBasis(q, c) ==
  QuatMul(QuatMul(q, [k \in 1 .. 4 |-> IF k = c THEN 1 ELSE 0]), QuatConj(q))

\* C33: for every position p and unit quaternion q the camera transform has
\* entry [r][c] (r, c in 0..2) equal to entry [c][r] of the standard rotation
\* matrix of q, last row (p.x, p.y, p.z, 1) and last column (0, 0, 0, 1);
\* transform i is that of positions[i] and orientations[i], whatever the
\* other camera's pose is.
C33_LayoutBTransform ==
  f_op = "transform_arrays" =>
     \A i \in 0 .. 1 :
        LET m == f_value.camera[i]
            p == f_args.positions[i]
            q == f_args.orientations[i]
        IN  /\ \A r \in 1 .. 3, c \in 1 .. 3 : 2 * m[r][c] = RotatedBasis(q, r)[c]
            /\ m[4] = <<p[1], p[2], p[3], 2>>
            /\ \A r \in 1 .. 3 : m[r][4] = 0

\* The rotation by a third of a turn about (1, 1, 1), q = (1/2, 1/2, 1/2, 1/2),
\* at (1/2, -1/2, 0): its matrix sends x to y, y to z, z to x, and the
\* transform holds the transposed matrix, which is not the matrix itself
C33_Witness ==
  /\ f_op = "transform_arrays"
  /\ f_args.orientations[0] = <<1, 1, 1, 1>> /\ f_args.positions[0] = <<1, -1, 0>>
  /\ f_args.orientations[1] = <<0, 0, 0, 2>>
  /\ f_value.camera[0] = << <<0, 2, 0, 0>>, <<0, 0, 2, 0>>, <<2, 0, 0, 0>>, <<1, -1, 0, 2>> >>
  /\ f_value.camera[0][1][2] # f_value.camera[0][2][1]

\* C34: for the same position and unit quaternion the camera-transform kernel
\* and the physics-to-render sync kernel write the same 4x4 matrix: rotation
\* transposed, translation in the last row.
C34_KernelsWriteSameMatrix ==
  f_op = "transform_arrays" =>
     \A i \in 0 .. 1 :
        /\ f_value.camera[i] = f_value.sync[i + 1]
        /\ f_value.sync[i + 1][4] =
             <<f_args.positions[i][1], f_args.positions[i][2], f_args.positions[i][3], 2>>

\* A third of a turn, q = (-1/2, 1/2, 1/2, 1/2), at (0, 1/2, 1/2): both
\* kernels wrote the same matrix, and its rotation is not symmetric
C34_Witness ==
  /\ f_op = "transform_arrays"
  /\ f_args.orientations[0] = <<-1, 1, 1, 1>> /\ f_args.positions[0] = <<0, 1, 1>>
  /\ f_value.sync[1] = f_value.camera[0]
  /\ f_value.sync[1][1][2] # f_value.sync[1][2][1]

\* C31: in render() every kernel launch or device copy has completed before
\* the next stage uses its output: the transform kernel before the camera
\* copy reads it, the camera copy and the sync kernel before their mapping
\* is released and the renderer steps, each extraction kernel before the
\* mapping of the rendered frame is released.
C31_LaunchesCompleteBeforeUse == cuda.early = {}

====
